---- MODULE Spec2Model ----
(***************************************************************************)
(* bcproxy-rust: the BatMUD "batclient mode" proxy.                        *)
(*                                                                         *)
(* The module models                                                       *)
(*   - BatMudCodec (src/src/codec/mod.rs), the resumable decoder,          *)
(*   - ControlCode::from and ControlCode::to_bytes                         *)
(*     (src/src/codec/control_code/{mod,transform}.rs),                    *)
(*   - Mapper::try_from (src/src/codec/control_code/mapper.rs),            *)
(*   - server_to_client (src/src/main.rs), the server-to-client forwarder, *)
(*   - process, client_to_server and the persistence sink                  *)
(*     (src/src/main.rs),                                                  *)
(*   - ServerCodec (src/src/codec/server_codec.rs) with BatTag             *)
(*     (src/src/bat_tag.rs), the decoder of another version of the proxy.  *)
(*                                                                         *)
(* Bytes are the integers 0..255, byte strings are sequences of bytes.     *)
(* Rust indexes from 0: At and Slice translate the indices.                *)
(***************************************************************************)
EXTENDS Integers, Sequences, FiniteSets, TLC

\* ------------------------------------------------------------------ bytes

ESC == 27
IAC == 255
LF == 10
LT == 60
GT == 62
BAR == 124
SEMI == 59

\* bytes[i]
At(b, i) == b[i + 1]

\* bytes[i..j]
Slice(b, i, j) == SubSeq(b, i + 1, j)

\* bytes[i..]
From(b, i) == SubSeq(b, i + 1, Len(b))

Min(S) == CHOOSE x \in S : \A y \in S : x <= y

Max2(a, b) == IF a >= b THEN a ELSE b

\* iter().position(|b| *b == c) on bytes[start..]: the absolute index of the
\* first c at or after start, -1 for None
PositionOf(b, start, c) ==
    LET S == {i \in start..(Len(b) - 1) : At(b, i) = c}
    IN  IF S = {} THEN -1 ELSE Min(S)

RECURSIVE Flatten(_)
Flatten(ss) == IF ss = <<>> THEN <<>> ELSE Head(ss) \o Flatten(Tail(ss))

\* ------------------------------------------------- ControlCode::from

TextContent(bytes) == [kind |-> "Text", bytes |-> bytes]
CodeContent(cc) == [kind |-> "Code", cc |-> cc]

FromOk(code, attribute, children) ==
    [ok |-> TRUE, code |-> code, attribute |-> attribute, children |-> children]
FromErr(msg) == [ok |-> FALSE, err |-> msg]
\* an index or a slice out of range
FromPanic == [ok |-> FALSE, err |-> "panic"]

\* the inner loop of ControlCode::from: the index of the ESC of the closing tag
\* that brings depth back to 0; -1: no further ESC (error); -2: out of range
RECURSIVE InnerLoop(_, _, _)
InnerLoop(bytes, inner_index, depth) ==
    IF inner_index > Len(bytes) THEN -2
    ELSE LET next_inner_esc_index == PositionOf(bytes, inner_index, ESC)
         IN  IF next_inner_esc_index = -1 THEN -1
             ELSE IF next_inner_esc_index + 1 >= Len(bytes) THEN -2
             ELSE LET c == At(bytes, next_inner_esc_index + 1)
                  IN  CASE c = BAR -> InnerLoop(bytes, next_inner_esc_index + 2, depth)
                        [] c = LT -> InnerLoop(bytes, next_inner_esc_index + 4, depth + 1)
                        [] c = GT -> IF depth - 1 > 0
                                     THEN InnerLoop(bytes, next_inner_esc_index + 4, depth - 1)
                                     ELSE next_inner_esc_index
                        [] OTHER -> InnerLoop(bytes, next_inner_esc_index + 1, depth)

RECURSIVE ControlCodeFrom(_)
RECURSIVE FromLoop(_, _, _, _, _)

\* the outer loop of ControlCode::from, entered with depth = 0
FromLoop(bytes, code, index, attribute, children) ==
    IF index > Len(bytes) THEN FromPanic
    ELSE LET next_esc_index == PositionOf(bytes, index, ESC)
             withText == IF index < next_esc_index
                         THEN Append(children, TextContent(Slice(bytes, index, next_esc_index)))
                         ELSE children
         IN  IF next_esc_index = -1 THEN FromErr("unterminated control code")
             ELSE IF next_esc_index + 1 >= Len(bytes) THEN FromPanic
             ELSE LET c == At(bytes, next_esc_index + 1)
                  IN  CASE c = GT -> FromOk(code, attribute, withText)
                        [] c = BAR ->
                             FromLoop(bytes, code, next_esc_index + 2,
                                      Slice(bytes, index, next_esc_index), children)
                        [] c = LT ->
                             LET close == InnerLoop(bytes, next_esc_index + 4, 1)
                             IN  IF close = -1 THEN FromErr("unterminated inner control code")
                                 ELSE IF close = -2 \/ close + 4 > Len(bytes) THEN FromPanic
                                 ELSE LET child_code ==
                                              ControlCodeFrom(Slice(bytes, next_esc_index, close + 4))
                                      IN  IF ~child_code.ok THEN child_code
                                          ELSE FromLoop(bytes, code, close + 4, attribute,
                                                        Append(withText, CodeContent(child_code)))
                        [] OTHER ->
                             FromLoop(bytes, code, next_esc_index + 1, attribute,
                                      Append(children,
                                             TextContent(Slice(bytes, index, next_esc_index + 1))))

ControlCodeFrom(bytes) ==
    IF Len(bytes) < 4 THEN FromPanic
    ELSE FromLoop(bytes, <<At(bytes, 2), At(bytes, 3)>>, 4, <<>>, <<>>)

\* ------------------------------------------------------------ colours

BASE_COLORS ==
    <<0, 8388608, 32768, 8421376, 128, 8388736, 32896, 12632256,
      8421504, 16711680, 65280, 16776960, 255, 16711935, 65535, 16777215>>

GREYS ==
    <<526344, 1184274, 1842204, 2500134, 3158064, 3815994, 4473924, 5131854,
      5789784, 6447714, 7105644, 7763574, 8421504, 9079434, 9737364, 10395294,
      11053224, 11711154, 12369084, 13027014, 13684944, 14342874, 15000804, 15658734>>

\* position of v in the array t, 0-based; -1 for None
ArrayPosition(t, v) ==
    LET S == {i \in 1..Len(t) : t[i] = v}
    IN  IF S = {} THEN -1 ELSE Min(S) - 1

\* a scale that rounds to the nearest step
scale_to_nearest(x, n) == ((x * n + 127) \div 255) % 256

\* scale!(x, n): ((x as u32) * n / 255) as u8
scale(x, n) == ((x * n) \div 255) % 256

\* a conversion that looks at the greyscale steps first
rgb_to_xterm_greys_first(r, g, b) ==
    LET rgb == r * 65536 + g * 256 + b
        base == ArrayPosition(BASE_COLORS, rgb)
        grey == ArrayPosition(GREYS, rgb)
    IN  IF grey # -1 THEN (232 + grey) % 256
        ELSE IF base # -1 THEN base
        ELSE (16 + 36 * scale(r, 5) + 6 * scale(g, 5) + scale(b, 5)) % 256

rgb_to_xterm(r, g, b) ==
    LET rgb == r * 65536 + g * 256 + b
        base == ArrayPosition(BASE_COLORS, rgb)
        grey == ArrayPosition(GREYS, rgb)
    IN  IF base # -1 THEN base
        ELSE IF grey # -1 THEN (232 + grey) % 256
        ELSE (16 + 36 * scale(r, 5) + 6 * scale(g, 5) + scale(b, 5)) % 256

hex_to_u8(c) ==
    CASE c >= 48 /\ c <= 57 -> c - 48
      [] c >= 65 /\ c <= 70 -> c - 65 + 10
      [] c >= 97 /\ c <= 102 -> c - 97 + 10
      [] OTHER -> 0

\* rgb_to_256(&attribute): a hex string of up to 6 digits, missing digits read
\* as '0'; more than 6 bytes give 0
rgb_to_256(attribute) ==
    LET digit(i) == IF i < Len(attribute) THEN At(attribute, i) ELSE 48
        r == (hex_to_u8(digit(0)) * 16 + hex_to_u8(digit(1))) % 256
        g == (hex_to_u8(digit(2)) * 16 + hex_to_u8(digit(3))) % 256
        b == (hex_to_u8(digit(4)) * 16 + hex_to_u8(digit(5))) % 256
    IN  IF Len(attribute) > 6 THEN 0 ELSE rgb_to_xterm(r, g, b)

\* format!("{color}"): the decimal digits of a u8
RECURSIVE Decimal(_)
Decimal(n) == IF n < 10 THEN <<48 + n>> ELSE Decimal(n \div 10) \o <<48 + (n % 10)>>

\* ------------------------------------------------ ControlCode::to_bytes

IAC_GA == <<255, 249>>
PREFIX == <<207, 128>>

MESSAGE_OF_TYPE == <<49, 48>>
MESSAGE_TYPE_SPEC_PROMPT == <<115, 112, 101, 99, 95, 112, 114, 111, 109, 112, 116>>
MESSAGE_TYPE_SPEC_SKILL == <<115, 112, 101, 99, 95, 115, 107, 105, 108, 108>>
MESSAGE_TYPE_SPEC_SPELL == <<115, 112, 101, 99, 95, 115, 112, 101, 108, 108>>
CLEAR_SCREEN == <<49, 49>>
TEXT_COLOR_FOREGROUND == <<50, 48>>
TEXT_COLOR_BACKGROUND == <<50, 49>>
TEXT_BOLD == <<50, 50>>
TEXT_ITALIC == <<50, 51>>
TEXT_UNDERLINE == <<50, 52>>
TEXT_BLINK == <<50, 53>>
TEXT_RESET == <<50, 57>>
TEXT_HYPERLINK == <<51, 48>>
TEXT_IN_GAME_LINK == <<51, 49>>
\* PLAYER_*, STATUS_AFFECTING, PARTY_*, TARGET_INFO
INFO_CODES ==
    {<<53, 48>>, <<53, 49>>, <<53, 50>>, <<53, 51>>, <<53, 52>>, <<54, 48>>,
     <<54, 52>>, <<54, 49>>, <<54, 50>>, <<54, 51>>, <<55, 48>>}
CUSTOM_INFO == <<57, 57>>

\* "\x1b[0m"
SGR_RESET == <<27, 91, 48, 109>>

\* embed_style!: the string literal "\x1b[$stylem" is emitted as written, a
\* macro argument is not substituted inside a string literal
embed_style(style, children_bytes) ==
    <<27, 91, 36, 115, 116, 121, 108, 101, 109>> \o children_bytes \o SGR_RESET

embed_info_type(c1, c2, children_bytes) ==
    PREFIX \o <<c1, c2, 58>> \o children_bytes \o <<LF>>

\* slice.split(|b| *b == sep): always at least one part
RECURSIVE SplitOn(_, _)
SplitOn(b, sep) ==
    LET p == PositionOf(b, 0, sep)
    IN  IF p = -1 THEN <<b>>
        ELSE <<Slice(b, 0, p)>> \o SplitOn(From(b, p + 1), sep)

\* the colour arms, fg_bg is "38" or "48"
ColorArm(fg_bg, attribute, children_bytes) ==
    <<27, 91>> \o fg_bg \o <<59, 53, 59>> \o Decimal(rgb_to_256(attribute)) \o <<109>>
        \o children_bytes \o SGR_RESET

\* a prompt rendered like spec_skill and spec_spell, with no Go-Ahead after it
SpecPromptArmWithoutGoAhead(children_bytes) ==
    PREFIX \o <<GT>> \o children_bytes

\* MESSAGE_OF_TYPE if attribute == spec_prompt
SpecPromptArm(children_bytes) ==
    PREFIX \o <<GT>> \o children_bytes \o IAC_GA

\* MESSAGE_OF_TYPE, no special argument: every part but the last
RECURSIVE PrefixedLines(_, _, _)
PrefixedLines(lines, upto, head) ==
    IF upto = 0 THEN <<>>
    ELSE PrefixedLines(lines, upto - 1, head) \o head \o lines[upto] \o <<LF>>

MessageArm(attribute, children_bytes) ==
    LET lines == SplitOn(children_bytes, LF)
    IN  PrefixedLines(lines, Len(lines) - 1, PREFIX \o attribute \o <<58, 32>>)

\* the field scan of the CUSTOM_INFO arm
RECURSIVE MapperFields(_, _, _, _)
MapperFields(cb, next_index, read_index, fields) ==
    LET p == PositionOf(cb, next_index, SEMI)
    IN  IF p = -1
        THEN IF next_index < Len(cb) THEN Append(fields, From(cb, next_index)) ELSE fields
        ELSE IF p < Len(cb) - 1 /\ At(cb, p + 1) = SEMI
             THEN MapperFields(cb, p + 2, p + 2, Append(fields, Slice(cb, read_index, p)))
             ELSE MapperFields(cb, p + 1, read_index, fields)

RECURSIVE JoinFields(_, _)
JoinFields(fields, n) ==
    IF n = 0 THEN <<>> ELSE JoinFields(fields, n - 1) \o fields[n] \o <<SEMI, SEMI>>

CustomInfoArm(code, children_bytes) ==
    LET fields == MapperFields(children_bytes, 0, 0, <<>>)
        head == PREFIX \o <<code[1], code[2], 58>>
    IN  CASE Len(fields) = 8 ->
               LET lines == SplitOn(fields[7], LF)
               IN  head \o JoinFields(fields, 6) \o fields[8] \o <<SEMI, SEMI, LF>>
                       \o PrefixedLines(lines, Max2(Len(lines) - 1, 1), head)
          [] Len(fields) = 2 -> head \o fields[2] \o <<LF>>
          [] OTHER -> <<>>

RECURSIVE to_bytes(_)
RECURSIVE get_children_bytes(_)

\* a renderer that takes a child tag's content without the child's own wrapper
get_children_bytes_unwrapped(cc) ==
    LET render(c) == IF c.kind = "Text" THEN c.bytes ELSE get_children_bytes(c.cc)
    IN  Flatten([i \in 1..Len(cc.children) |-> render(cc.children[i])])

get_children_bytes(cc) ==
    LET render(c) == IF c.kind = "Text" THEN c.bytes ELSE to_bytes(c.cc)
    IN  Flatten([i \in 1..Len(cc.children) |-> render(cc.children[i])])

to_bytes(cc) ==
    LET children_bytes == get_children_bytes(cc)
        code == cc.code
    IN  CASE code = TEXT_COLOR_FOREGROUND -> ColorArm(<<51, 56>>, cc.attribute, children_bytes)
          [] code = TEXT_COLOR_BACKGROUND -> ColorArm(<<52, 56>>, cc.attribute, children_bytes)
          [] code = TEXT_BOLD -> embed_style(1, children_bytes)
          [] code = TEXT_ITALIC -> embed_style(3, children_bytes)
          [] code = TEXT_UNDERLINE -> embed_style(4, children_bytes)
          [] code = TEXT_BLINK -> embed_style(5, children_bytes)
          [] code = TEXT_RESET -> SGR_RESET \o children_bytes
          [] code = MESSAGE_OF_TYPE /\ cc.attribute = MESSAGE_TYPE_SPEC_PROMPT ->
               SpecPromptArm(children_bytes)
          [] code = MESSAGE_OF_TYPE /\ cc.attribute # MESSAGE_TYPE_SPEC_PROMPT
                /\ (cc.attribute = MESSAGE_TYPE_SPEC_SKILL
                      \/ cc.attribute = MESSAGE_TYPE_SPEC_SPELL) -> children_bytes
          [] code = MESSAGE_OF_TYPE /\ cc.attribute # MESSAGE_TYPE_SPEC_PROMPT
                /\ cc.attribute # MESSAGE_TYPE_SPEC_SKILL
                /\ cc.attribute # MESSAGE_TYPE_SPEC_SPELL -> MessageArm(cc.attribute, children_bytes)
          [] code = CLEAR_SCREEN -> <<60, 99, 108, 101, 97, 114, 62, 10>>
          [] code \in INFO_CODES -> embed_info_type(code[1], code[2], children_bytes)
          [] code = CUSTOM_INFO -> CustomInfoArm(code, children_bytes)
          [] code = TEXT_HYPERLINK \/ code = TEXT_IN_GAME_LINK -> children_bytes
          [] OTHER -> embed_info_type(code[1], code[2], children_bytes)

is_mapper(cc) == cc.code = CUSTOM_INFO

\* ------------------------------------------------------ Mapper::try_from

\* windows(2).position(|b| b == b";;") on value[start..]: absolute index, -1 for None
PositionOfDelimiter(value, start) ==
    LET S == {i \in start..(Len(value) - 2) : At(value, i) = SEMI /\ At(value, i + 1) = SEMI}
    IN  IF S = {} THEN -1 ELSE Min(S)

\* String::from_utf8 succeeds: well-formed UTF-8 from index i on
RECURSIVE Utf8Valid(_, _)
Utf8Valid(b, i) ==
    LET n == Len(b) - i
        cont(k) == At(b, i + k) >= 128 /\ At(b, i + k) <= 191
        c == At(b, i)
    IN  IF n <= 0 THEN TRUE
        ELSE CASE c < 128 -> Utf8Valid(b, i + 1)
               [] c >= 194 /\ c <= 223 -> n >= 2 /\ cont(1) /\ Utf8Valid(b, i + 2)
               [] c = 224 -> n >= 3 /\ At(b, i + 1) >= 160 /\ cont(1) /\ cont(2)
                                /\ Utf8Valid(b, i + 3)
               [] c = 237 -> n >= 3 /\ cont(1) /\ At(b, i + 1) <= 159 /\ cont(2)
                                /\ Utf8Valid(b, i + 3)
               [] c >= 225 /\ c <= 239 /\ c # 237 ->
                    n >= 3 /\ cont(1) /\ cont(2) /\ Utf8Valid(b, i + 3)
               [] c = 240 -> n >= 4 /\ At(b, i + 1) >= 144 /\ cont(1) /\ cont(2) /\ cont(3)
                                /\ Utf8Valid(b, i + 4)
               [] c >= 241 /\ c <= 243 -> n >= 4 /\ cont(1) /\ cont(2) /\ cont(3)
                                /\ Utf8Valid(b, i + 4)
               [] c = 244 -> n >= 4 /\ cont(1) /\ At(b, i + 1) <= 143 /\ cont(2) /\ cont(3)
                                /\ Utf8Valid(b, i + 4)
               [] OTHER -> FALSE

MapperRealm == [ok |-> TRUE, kind |-> "Realm"]
MapperErr(msg) == [ok |-> FALSE, err |-> msg]

\* the loop of Mapper::try_from; m holds the fields assigned so far
RECURSIVE TryFromLoop(_, _, _, _)
TryFromLoop(value, field_index, next_index, m) ==
    LET p == PositionOfDelimiter(value, next_index)
        field == Slice(value, next_index, p)
        text(name) ==
            IF Utf8Valid(field, 0)
            THEN TryFromLoop(value, field_index + 1, p + 2, [m EXCEPT ![name] = field])
            ELSE MapperErr("invalid utf-8")
    IN  CASE field_index = 0 /\ p # -1 -> TryFromLoop(value, 1, p + 2, m)
          [] field_index = 1 /\ p # -1 -> text("area_name")
          [] field_index = 1 /\ p = -1 -> MapperRealm
          [] field_index = 2 /\ p # -1 -> text("room_id")
          [] field_index = 3 /\ p # -1 -> text("from")
          [] field_index = 4 /\ p # -1 ->
               TryFromLoop(value, 5, p + 2, [m EXCEPT !.indoor = (At(value, next_index) = 49)])
          [] field_index = 5 /\ p # -1 -> text("room_name")
          [] field_index = 6 /\ p # -1 -> text("room_description")
          [] field_index = 7 /\ p # -1 ->
               IF Utf8Valid(field, 0)
               THEN [m EXCEPT !.exits = field]
               ELSE MapperErr("invalid utf-8")
          [] OTHER -> MapperErr("cannot get correct room data from input")

\* a parser that takes the long description before the short one
MapperTryFromLongFirst(value) ==
    LET m == TryFromLoop(value, 0, 0,
                         [ok |-> TRUE, kind |-> "Area", room_id |-> <<>>, room_name |-> <<>>,
                          area_name |-> <<>>, room_description |-> <<>>, indoor |-> FALSE,
                          exits |-> <<>>, from |-> <<>>])
    IN  IF m.ok /\ m.kind = "Area"
        THEN [m EXCEPT !.room_name = m.room_description, !.room_description = m.room_name]
        ELSE m

MapperTryFrom(value) ==
    TryFromLoop(value, 0, 0,
                [ok |-> TRUE, kind |-> "Area", room_id |-> <<>>, room_name |-> <<>>,
                 area_name |-> <<>>, room_description |-> <<>>, indoor |-> FALSE,
                 exits |-> <<>>, from |-> <<>>])

\* ---------------------------------------------------------- BatMudCodec

\* BatMudCodec::new together with an empty read buffer
NewCodec == [buf |-> <<>>, state |-> "Text", next_index |-> 0, current_code_stack |-> <<>>]

\* what one call of decode returns
FrameNone == [kind |-> "None"]
FrameContinue == [kind |-> "Continue"]
FrameText(bytes) == [kind |-> "Text", bytes |-> bytes]
FrameCode(cc) == [kind |-> "Code", code |-> cc]
FrameErr(msg) == [kind |-> "Err", err |-> msg]
FramePanic == [kind |-> "Panic"]

Returned(c, frame) == [codec |-> c, frame |-> frame]

\* buf.split_to(n): the frame takes the first n bytes, the buffer keeps the rest
SplitTo(c, n) == [c EXCEPT !.buf = From(c.buf, n)]

\* a decoder that does not wait for the byte after IAC: what it returns then
\* depends on where the stream was cut
IacArmWithoutLookahead(c, at) ==
    LET end == IF at + 2 <= Len(c.buf) THEN at + 2 ELSE Len(c.buf)
    IN  Returned([SplitTo(c, end) EXCEPT !.next_index = 0],
                 FrameText(Slice(c.buf, 0, end)))

\* decode_text, the byte at index `at` is IAC
IacArm(c, at) ==
    IF at + 1 < Len(c.buf)
    THEN Returned([SplitTo(c, at + 2) EXCEPT !.next_index = 0],
                  FrameText(Slice(c.buf, 0, at + 2)))
    ELSE Returned(c, FrameNone)

\* a decoder that leaves the cursor on the ESC it has found
EscArmCursorOnEsc(c, at) ==
    Returned([c EXCEPT !.state = "Esc", !.next_index = at], FrameContinue)

\* decode_text, the byte at index `at` is ESC
EscArm(c, at) ==
    Returned([c EXCEPT !.state = "Esc", !.next_index = at + 1], FrameContinue)

\* decode_text, the byte at index `at` is a newline
NewlineArm(c, at) ==
    IF c.current_code_stack = <<>>
    THEN Returned([SplitTo(c, at + 1) EXCEPT !.next_index = 0],
                  FrameText(Slice(c.buf, 0, at + 1)))
    ELSE Returned([c EXCEPT !.next_index = at + 1], FrameContinue)

\* a decoder that gives up the bytes it has scanned when it finds no break
NoBreakArmDropsBuffer(c) == Returned([c EXCEPT !.buf = <<>>, !.next_index = 0], FrameNone)

\* decode_text, no newline, ESC or IAC from next_index on
NoBreakArm(c) == Returned([c EXCEPT !.next_index = Len(c.buf)], FrameNone)

decode_text(c) ==
    IF c.next_index > Len(c.buf) THEN Returned(c, FramePanic)
    ELSE LET S == {i \in c.next_index..(Len(c.buf) - 1) : At(c.buf, i) \in {LF, ESC, IAC}}
             at == Min(S)
         IN  IF S = {} THEN NoBreakArm(c)
             ELSE CASE At(c.buf, at) = IAC -> IacArm(c, at)
                    [] At(c.buf, at) = ESC -> EscArm(c, at)
                    [] OTHER -> NewlineArm(c, at)

\* decode_esc, the byte after ESC is '<'
OpenArm(c) ==
    IF c.next_index > 1 /\ c.current_code_stack = <<>>
    THEN Returned([SplitTo(c, c.next_index - 1) EXCEPT !.next_index = 1],
                  FrameText(Slice(c.buf, 0, c.next_index - 1)))
    ELSE LET opening == <<At(c.buf, c.next_index + 1), At(c.buf, c.next_index + 2)>>
         IN  Returned([c EXCEPT !.current_code_stack = Append(@, opening),
                                !.next_index = @ + 3,
                                !.state = "Text"],
                      FrameContinue)

\* decode_esc, a closing tag that does not close the popped opening tag: the
\* four bytes of the closing tag are cut out of the buffer
MismatchArm(c, popped) ==
    IF c.next_index < 1 THEN Returned(c, FramePanic)
    ELSE Returned([c EXCEPT !.buf = Slice(c.buf, 0, c.next_index - 1)
                                       \o From(c.buf, c.next_index - 1 + 4),
                            !.current_code_stack = popped,
                            !.next_index = 0,
                            !.state = "Text"],
                  FrameContinue)

\* decode_esc, the closing tag of the outermost open tag
EmitArm(c, popped) ==
    LET bytes == Slice(c.buf, 0, c.next_index + 3)
        code == ControlCodeFrom(bytes)
        split == [SplitTo(c, c.next_index + 3) EXCEPT !.current_code_stack = popped]
    IN  IF code.ok
        THEN Returned([split EXCEPT !.state = "Text", !.next_index = 0], FrameCode(code))
        ELSE IF code.err = "panic" THEN Returned(split, FramePanic)
        ELSE Returned(split, FrameErr(code.err))

\* a decoder that emits a frame for every closing tag, inner ones included
InnerCloseArmEmits(c, popped) ==
    EmitArm(c, popped)

\* decode_esc, the closing tag of an inner tag
InnerCloseArm(c, popped) ==
    Returned([c EXCEPT !.current_code_stack = popped,
                       !.state = "Text",
                       !.next_index = @ + 3],
             FrameContinue)

\* decode_esc, the byte after ESC is '>'
CloseArm(c) ==
    LET stack == c.current_code_stack
        none == stack = <<>>
        popped == IF none THEN stack ELSE SubSeq(stack, 1, Len(stack) - 1)
        closing == <<At(c.buf, c.next_index + 1), At(c.buf, c.next_index + 2)>>
    IN  IF none \/ stack[Len(stack)] # closing THEN MismatchArm(c, popped)
        ELSE IF popped = <<>> THEN EmitArm(c, popped)
        ELSE InnerCloseArm(c, popped)

\* decode_esc, any other byte after ESC
OtherArm(c) ==
    Returned([c EXCEPT !.state = "Text", !.next_index = @ + 1], FrameContinue)

decode_esc(c) ==
    IF Len(c.buf) > c.next_index + 2
    THEN CASE At(c.buf, c.next_index) = LT -> OpenArm(c)
           [] At(c.buf, c.next_index) = GT -> CloseArm(c)
           [] OTHER -> OtherArm(c)
    ELSE Returned(c, FrameNone)

decode(c) ==
    IF c.buf = <<>> THEN Returned(c, FrameNone)
    ELSE IF c.state = "Text" THEN decode_text(c)
    ELSE decode_esc(c)

IsFrame(frame) == frame.kind \in {"Text", "Code"}
Stops(frame) == frame.kind \in {"None", "Err", "Panic"}

\* the loop of the tests' decode_buf!: decode until it returns no frame,
\* collecting the frames that are not Continue
RECURSIVE DecodeBuf(_, _)
DecodeBuf(c, collected) ==
    LET r == decode(c)
    IN  IF Stops(r.frame)
        THEN [codec |-> r.codec, frames |-> collected, last |-> r.frame]
        ELSE DecodeBuf(r.codec, IF IsFrame(r.frame) THEN Append(collected, r.frame)
                                ELSE collected)

\* the whole of `bytes` in the buffer from the start
DecodeWhole(bytes) == DecodeBuf([NewCodec EXCEPT !.buf = bytes], <<>>)

\* ------------------------------------------------------------- streams

\* the server stream is a sequence of tokens, each a byte string; it reaches
\* the decoder cut into parts at arbitrary byte positions
MaxTokens == 4

PLAIN == <<97>>
NEWLINE == <<LF>>
BARE_ESC == <<ESC>>
Open(code) == <<ESC, LT>> \o code
Close(code) == <<ESC, GT>> \o code
SEPARATOR == <<ESC, BAR>>

TagCodes == {MESSAGE_OF_TYPE, CUSTOM_INFO}
OpenTokens == {Open(code) : code \in TagCodes}
CloseTokens == {Close(code) : code \in TagCodes}

CodecTokens ==
    {PLAIN, NEWLINE, BARE_ESC, IAC_GA, SEPARATOR} \cup OpenTokens \cup CloseTokens

TokenSeqs(tokens, n) == UNION {[1..k -> tokens] : k \in 0..n}

VARIABLES
    stream,              \* the tokens the server sends
    input,               \* the bytes of stream
    fed,                 \* how many bytes of input have been read into buf
    parts,               \* how many reads have brought those bytes
    buf,                 \* the read buffer of the FramedRead
    state,               \* BatMudCodec.state
    next_index,          \* BatMudCodec.next_index
    current_code_stack,  \* BatMudCodec.current_code_stack
    readable,            \* the buffer holds bytes decode has not yet refused
    ret,                 \* what the last call of decode returned
    frames,              \* the Text and Code frames returned so far
    eof,                 \* the server has closed its side
    client_out,          \* the bytes written to the client
    sink,                \* the mapper records handed to a spawned send task
    s2c,                 \* server_to_client: "running", "done" or why it failed
    control_code,        \* the result of ControlCode::from on a tag
    rendered,            \* the result of to_bytes on control_code
    mapper_result,       \* the result of Mapper::try_from on a payload
    pc,                  \* process: "connect", "activate", "forward", "closed", "failed"
    client_input,        \* the bytes the client sends
    client_fed,          \* how many of them client_to_server has read
    line,                \* client_to_server: the frame read and not yet written
    c2s,                 \* client_to_server: "running", "done" or why it failed
    to_server,           \* the bytes written to the server
    server_wr,           \* the proxy's write side to the server: "open" or "closed"
    client_wr,           \* the proxy's write side to the client: "open" or "closed"
    channel,             \* the messages in the mpsc channel of the sink
    received,            \* how many messages handle_db_message has received
    stored,              \* the records it has passed to upsert_room, in order
    xterm,               \* the result of rgb_to_xterm on a colour
    inbound,             \* proxy_bidirection: the ProxyState of server to client
    outbound,            \* proxy_bidirection: the ProxyState of client to server
    bidirection          \* proxy_bidirection: pending, or what the call returned

vars == <<stream, input, fed, parts, buf, state, next_index, current_code_stack,
          readable, ret, frames, eof, client_out, sink, s2c, control_code, rendered,
          mapper_result, pc, client_input, client_fed, line, c2s, to_server,
          server_wr, client_wr, channel, received, stored, xterm, inbound, outbound,
          bidirection>>

proxyVars == <<eof, client_out, sink, s2c>>
renderVars == <<control_code, rendered>>
processVars == <<pc, client_input, client_fed, line, c2s, to_server, server_wr, client_wr>>
sinkVars == <<channel, received, stored>>
colorVars == <<xterm>>
ioVars == <<inbound, outbound, bidirection>>
otherVars == <<mapper_result, processVars, sinkVars, colorVars, ioVars>>

\* mpsc::channel::<DbMessage>(64)
CHANNEL_CAPACITY == 64
decoderVars == <<fed, parts, buf, state, next_index, current_code_stack, readable, ret, frames>>

NotParsed == [ok |-> FALSE, err |-> "not parsed"]
NotRendered == [done |-> FALSE]
NotTried == [ok |-> FALSE, err |-> "not tried"]

\* the decoder on its own, before any byte
CodecIdle ==
    /\ fed = 0
    /\ parts = 0
    /\ buf = NewCodec.buf
    /\ state = NewCodec.state
    /\ next_index = NewCodec.next_index
    /\ current_code_stack = NewCodec.current_code_stack
    /\ readable = FALSE
    /\ ret = FrameNone
    /\ frames = <<>>

ProxyIdle ==
    /\ eof = FALSE
    /\ client_out = <<>>
    /\ sink = <<>>
    /\ s2c = "running"

RenderIdle ==
    /\ control_code = NotParsed
    /\ rendered = NotRendered

\* no connection accepted
ProcessIdle ==
    /\ pc = "connect"
    /\ client_input = <<>>
    /\ client_fed = 0
    /\ line = <<>>
    /\ c2s = "running"
    /\ to_server = <<>>
    /\ server_wr = "open"
    /\ client_wr = "open"

\* the persistence sink with an empty channel
SinkIdle ==
    /\ channel = <<>>
    /\ received = 0
    /\ stored = <<>>

\* no colour converted
ColorIdle == xterm = [done |-> FALSE]

\* enum ProxyState; Running holds the ProxyBuffer, of which the model keeps
\* the number of bytes it has copied
Running(copied) == [state |-> "Running", count |-> copied]
ShuttingDown(count) == [state |-> "ShuttingDown", count |-> count]
Done(count) == [state |-> "Done", count |-> count]

\* proxy_bidirection has not been polled
IoIdle ==
    /\ inbound = Running(0)
    /\ outbound = Running(0)
    /\ bidirection = [kind |-> "Pending"]

OtherIdle ==
    /\ mapper_result = NotTried
    /\ ProcessIdle
    /\ SinkIdle
    /\ ColorIdle
    /\ IoIdle

Codec ==
    [buf |-> buf, state |-> state, next_index |-> next_index,
     current_code_stack |-> current_code_stack]

SetCodec(c) ==
    /\ buf' = c.buf
    /\ state' = c.state
    /\ next_index' = c.next_index
    /\ current_code_stack' = c.current_code_stack

Halted == ret.kind \in {"Err", "Panic", "Hang"}

InitCodec ==
    /\ stream \in TokenSeqs(CodecTokens, MaxTokens)
    /\ input = Flatten(stream)
    /\ CodecIdle
    /\ ProxyIdle
    /\ RenderIdle
    /\ OtherIdle

\* the next part of the stream, k bytes long, is appended to the buffer
Feed(k) ==
    /\ ~readable
    /\ ~Halted
    /\ fed + k <= Len(input)
    /\ buf' = buf \o SubSeq(input, fed + 1, fed + k)
    /\ fed' = fed + k
    /\ parts' = parts + 1
    /\ readable' = TRUE
    /\ UNCHANGED <<otherVars, stream, input, state, next_index, current_code_stack, ret, frames>>
    /\ UNCHANGED <<proxyVars, renderVars>>

\* one call of BatMudCodec::decode
Decode ==
    /\ readable
    /\ LET r == decode(Codec)
       IN  /\ SetCodec(r.codec)
           /\ ret' = r.frame
           /\ readable' = ~Stops(r.frame)
           /\ frames' = IF IsFrame(r.frame) THEN Append(frames, r.frame) ELSE frames
    /\ UNCHANGED <<otherVars, stream, input, fed, parts, proxyVars, renderVars>>

NextCodec ==
    \/ \E k \in 1..Len(input) : Feed(k)
    \/ Decode

SpecCodec == InitCodec /\ [][NextCodec]_vars

\* every part has been fed and decode has been called until it gave no frame
Drained == ~readable /\ (Halted \/ fed = Len(input))

\* ------------------------------------------------- the shape of a stream

CodeOf(token) == <<token[3], token[4]>>
Top(stack) == stack[Len(stack)]
Pop(stack) == SubSeq(stack, 1, Len(stack) - 1)

\* plain text, newlines, opening and closing tags only
TagsOnly(s) ==
    \A i \in 1..Len(s) : s[i] \in {PLAIN, NEWLINE} \cup OpenTokens \cup CloseTokens

\* plain text and properly nested tags whose closing codes match their opening
\* codes; ESC| occurs inside tags only
RECURSIVE BalancedFrom(_, _)
BalancedFrom(s, stack) ==
    IF s = <<>> THEN stack = <<>>
    ELSE LET t == Head(s)
         IN  CASE t \in OpenTokens -> BalancedFrom(Tail(s), Append(stack, CodeOf(t)))
               [] t \in CloseTokens ->
                    /\ stack # <<>>
                    /\ Top(stack) = CodeOf(t)
                    /\ BalancedFrom(Tail(s), Pop(stack))
               [] t = SEPARATOR -> stack # <<>> /\ BalancedFrom(Tail(s), stack)
               [] t \in {PLAIN, NEWLINE} -> BalancedFrom(Tail(s), stack)
               [] OTHER -> FALSE

Balanced(s) == BalancedFrom(s, <<>>)

\* the number of opening tags at nesting depth 0, and the deepest nesting
RECURSIVE OuterTags(_, _)
OuterTags(s, depth) ==
    IF s = <<>> THEN 0
    ELSE CASE Head(s) \in OpenTokens ->
                (IF depth = 0 THEN 1 ELSE 0) + OuterTags(Tail(s), depth + 1)
           [] Head(s) \in CloseTokens -> OuterTags(Tail(s), Max2(depth - 1, 0))
           [] OTHER -> OuterTags(Tail(s), depth)

RECURSIVE DeepestNesting(_, _)
DeepestNesting(s, depth) ==
    IF s = <<>> THEN depth
    ELSE CASE Head(s) \in OpenTokens ->
                Max2(depth + 1, DeepestNesting(Tail(s), depth + 1))
           [] Head(s) \in CloseTokens -> DeepestNesting(Tail(s), Max2(depth - 1, 0))
           [] OTHER -> DeepestNesting(Tail(s), depth)

\* the stream without the closing tags whose code is not that of the innermost
\* open tag
RECURSIVE WithoutStrayFrom(_, _)
WithoutStrayFrom(s, stack) ==
    IF s = <<>> THEN <<>>
    ELSE LET t == Head(s)
         IN  CASE t \in OpenTokens ->
                    <<t>> \o WithoutStrayFrom(Tail(s), Append(stack, CodeOf(t)))
               [] t \in CloseTokens ->
                    IF stack # <<>> /\ Top(stack) = CodeOf(t)
                    THEN <<t>> \o WithoutStrayFrom(Tail(s), Pop(stack))
                    ELSE WithoutStrayFrom(Tail(s), stack)
               [] OTHER -> <<t>> \o WithoutStrayFrom(Tail(s), stack)

WithoutStray(s) == WithoutStrayFrom(s, <<>>)

\* the stream without its telnet sequences
RECURSIVE WithoutIac(_)
WithoutIac(s) ==
    IF s = <<>> THEN <<>>
    ELSE IF Head(s) = IAC_GA THEN WithoutIac(Tail(s))
    ELSE <<Head(s)>> \o WithoutIac(Tail(s))

RECURSIVE CodeFrames(_)
CodeFrames(fs) ==
    IF fs = <<>> THEN <<>>
    ELSE IF Head(fs).kind = "Code" THEN <<Head(fs)>> \o CodeFrames(Tail(fs))
    ELSE CodeFrames(Tail(fs))

\* ------------------------------------------------- the decoder's claims

\* C1: however the stream is cut into parts, once every part has been fed and
\* decoded the Text and Code frames are those of decoding the whole stream
\* from one buffer.
IncrementalEquivalence ==
    Drained => frames = DecodeWhole(input).frames

IncrementalEquivalenceWitness ==
    /\ Drained
    /\ fed = Len(input)
    /\ parts >= 3
    /\ \E i, j \in 1..Len(frames) : frames[i].kind = "Text" /\ frames[j].kind = "Code"
    /\ frames = DecodeWhole(input).frames

\* C2: a stream of plain text and properly nested, matching tags gives one
\* Code frame per outermost tag and no frame for an inner tag, and leaves no
\* tag open.
NestedBalance ==
    Balanced(stream) =>
        /\ ~Halted
        /\ (Drained /\ fed = Len(input)) =>
              /\ Len(CodeFrames(frames)) = OuterTags(stream, 0)
              /\ current_code_stack = <<>>

NestedBalanceWitness ==
    /\ Balanced(stream)
    /\ DeepestNesting(stream, 0) >= 2
    /\ Drained
    /\ fed = Len(input)
    /\ Len(CodeFrames(frames)) = 1
    /\ current_code_stack = <<>>

\* C3: a closing tag whose code is not that of the innermost open tag is only
\* cut out: frames and open-tag stack end up as if the stream had not
\* contained it, at any nesting depth.
StrayCloseOnlyDiscarded ==
    (Drained /\ fed = Len(input) /\ TagsOnly(stream) /\ WithoutStray(stream) # stream) =>
        LET clean == DecodeWhole(Flatten(WithoutStray(stream)))
        IN  /\ frames = clean.frames
            /\ current_code_stack = clean.codec.current_code_stack

\* C4: no call of decode returns an error.
DecodeNeverErrs == ret.kind # "Err"

\* C7: a telnet sequence met while a tag is open comes out as a Text frame of
\* its own bytes only, and the enclosing tags are still emitted as if the
\* telnet sequence had not been there.
IacInsideTagStandalone ==
    /\ (ret.kind = "Text" /\ current_code_stack # <<>>) => ret.bytes = IAC_GA
    /\ (Drained /\ fed = Len(input) /\ Balanced(WithoutIac(stream))) =>
          CodeFrames(frames) = CodeFrames(DecodeWhole(Flatten(WithoutIac(stream))).frames)

\* ------------------------------------------------------ server_to_client

\* '>' as a byte of text, the mapper delimiter, IAC WILL OUTMRK (option 27)
RANGLE == <<GT>>
DELIMITER == <<SEMI, SEMI>>
IAC_WILL_OUTMRK == <<255, 251, 27>>

MaxProxyTokens == 3

ProxyTokens ==
    {PLAIN, RANGLE, NEWLINE, DELIMITER, IAC_GA, IAC_WILL_OUTMRK,
     Open(CUSTOM_INFO), Close(CUSTOM_INFO)}

\* Decoder::decode_eof as BatMudCodec inherits it: decode once more, bytes
\* left in the buffer without a frame are an error
decode_eof(c) ==
    LET r == decode(c)
    IN  IF r.frame.kind = "None" /\ r.codec.buf # <<>>
        THEN Returned(r.codec, FrameErr("bytes remaining on stream"))
        ELSE r

InitProxy ==
    /\ stream \in TokenSeqs(ProxyTokens, MaxProxyTokens)
    /\ input = Flatten(stream)
    /\ CodecIdle
    /\ ProxyIdle
    /\ RenderIdle
    /\ OtherIdle

\* the FramedRead reads the next k bytes from the server
ServerRead(k) ==
    /\ s2c = "running"
    /\ ~readable
    /\ ~eof
    /\ fed + k <= Len(input)
    /\ buf' = buf \o SubSeq(input, fed + 1, fed + k)
    /\ fed' = fed + k
    /\ parts' = parts + 1
    /\ readable' = TRUE
    /\ UNCHANGED <<otherVars, stream, input, state, next_index, current_code_stack, ret, frames>>
    /\ UNCHANGED <<proxyVars, renderVars>>

\* the FramedRead reads end of file from the server
ServerEof ==
    /\ s2c = "running"
    /\ ~readable
    /\ ~eof
    /\ fed = Len(input)
    /\ eof' = TRUE
    /\ readable' = TRUE
    /\ UNCHANGED <<otherVars, stream, input, fed, parts, buf, state, next_index, current_code_stack,
                   ret, frames, client_out, sink, s2c, renderVars>>

\* an arm that awaits tx.send itself instead of spawning a task for it
CodeFrameArmAwaitsSend(cc) ==
    LET bytes == to_bytes(cc)
        mapper == MapperTryFrom(get_children_bytes(cc))
    IN  IF is_mapper(cc) /\ ~mapper.ok
        THEN /\ s2c' = "mapper error"
             /\ UNCHANGED <<client_out, sink>>
        ELSE IF is_mapper(cc) /\ Len(channel) >= CHANNEL_CAPACITY
        THEN /\ s2c' = "awaiting sink"
             /\ UNCHANGED <<client_out, sink>>
        ELSE /\ sink' = IF is_mapper(cc) THEN Append(sink, mapper) ELSE sink
             /\ client_out' = client_out \o bytes
             /\ UNCHANGED s2c

\* the arm of server_to_client for a Code frame
CodeFrameArm(cc) ==
    LET bytes == to_bytes(cc)
        mapper == MapperTryFrom(get_children_bytes(cc))
    IN  IF is_mapper(cc) /\ ~mapper.ok
        THEN /\ s2c' = "mapper error"
             /\ UNCHANGED <<client_out, sink>>
        ELSE /\ sink' = IF is_mapper(cc) THEN Append(sink, mapper) ELSE sink
             /\ client_out' = client_out \o bytes
             /\ UNCHANGED s2c

\* one turn of the loop of server_to_client: transport.next() calls decode (or
\* decode_eof after end of file) and the frame, if any, is handled
ServerToClient ==
    /\ s2c = "running"
    /\ readable
    /\ LET r == IF eof THEN decode_eof(Codec) ELSE decode(Codec)
       IN  /\ SetCodec(r.codec)
           /\ ret' = r.frame
           /\ readable' = ~Stops(r.frame)
           /\ frames' = IF IsFrame(r.frame) THEN Append(frames, r.frame) ELSE frames
           /\ CASE r.frame.kind = "Text" ->
                     /\ client_out' = client_out \o r.frame.bytes
                     /\ UNCHANGED <<sink, s2c>>
                [] r.frame.kind = "Code" -> CodeFrameArm(r.frame.code)
                [] r.frame.kind = "Continue" -> UNCHANGED <<client_out, sink, s2c>>
                [] r.frame.kind = "None" ->
                     /\ s2c' = IF eof THEN "done" ELSE s2c
                     /\ UNCHANGED <<client_out, sink>>
                [] r.frame.kind = "Err" ->
                     /\ s2c' = r.frame.err
                     /\ UNCHANGED <<client_out, sink>>
                [] OTHER ->
                     /\ s2c' = "panic"
                     /\ UNCHANGED <<client_out, sink>>
    /\ UNCHANGED <<otherVars, stream, input, fed, parts, eof, renderVars>>

NextProxy ==
    \/ \E k \in 1..Len(input) : ServerRead(k)
    \/ ServerEof
    \/ ServerToClient

SpecProxy == InitProxy /\ [][NextProxy]_vars

\* --------------------------------------------------- the forwarder's claims

NoEscNoIac(bytes) == \A i \in 1..Len(bytes) : bytes[i] # ESC /\ bytes[i] # IAC

\* text with telnet sequences and no tag
TextWithIac(s) ==
    /\ \A i \in 1..Len(s) : s[i] \in {PLAIN, RANGLE, NEWLINE, DELIMITER, IAC_GA, IAC_WILL_OUTMRK}
    /\ \E i \in 1..Len(s) : s[i] \in {IAC_GA, IAC_WILL_OUTMRK}

EndsWith(bytes, suffix) ==
    /\ Len(bytes) >= Len(suffix)
    /\ SubSeq(bytes, Len(bytes) - Len(suffix) + 1, Len(bytes)) = suffix

\* C5: a server stream without ESC and IAC has been written to the client byte
\* for byte by the time the stream has ended, a last line without a newline
\* included.
ByteConservation ==
    (s2c # "running" /\ NoEscNoIac(input)) => client_out = input

\* C6: in text without tags every telnet sequence reaches the client unchanged
\* and in place: what has been written, followed by what is still buffered, is
\* what has been read.
IacPassThrough ==
    (s2c = "running" /\ TextWithIac(stream)) => client_out \o buf = SubSeq(input, 1, fed)

\* C8: a code-99 tag whose body is no valid mapper payload is still written to
\* the client as rendered, and the forwarder keeps running.
InvalidMapperTolerated ==
    (/\ ret.kind = "Code"
     /\ is_mapper(ret.code)
     /\ ~MapperTryFrom(get_children_bytes(ret.code)).ok) =>
        /\ s2c = "running"
        /\ EndsWith(client_out, to_bytes(ret.code))

\* --------------------------------------------- decoding and transforming a tag

\* "\x1b[", the start of an ANSI sequence
ANSI == <<ESC, 91>>

RenderCodes == {MESSAGE_OF_TYPE, TEXT_BOLD}

BodyTokens ==
    {PLAIN, NEWLINE, RANGLE, ANSI, SEPARATOR, MESSAGE_TYPE_SPEC_PROMPT}
        \cup {Open(code) : code \in RenderCodes} \cup {Close(code) : code \in RenderCodes}

\* content := (text | tag | ansi | ESC|)*, the tags inside properly nested with
\* matching codes
RECURSIVE WellFormedContent(_, _)
WellFormedContent(s, stack) ==
    IF s = <<>> THEN stack = <<>>
    ELSE LET t == Head(s)
         IN  IF t[1] = ESC /\ t[2] = LT
             THEN WellFormedContent(Tail(s), Append(stack, CodeOf(t)))
             ELSE IF t[1] = ESC /\ t[2] = GT
             THEN /\ stack # <<>>
                  /\ Top(stack) = CodeOf(t)
                  /\ WellFormedContent(Tail(s), Pop(stack))
             ELSE WellFormedContent(Tail(s), stack)

\* tag := ESC< D D content ESC> D D
WellFormedTags ==
    {<<Open(code)>> \o body \o <<Close(code)>> :
        code \in RenderCodes,
        body \in {b \in TokenSeqs(BodyTokens, MaxTokens) : WellFormedContent(b, <<>>)}}

\* a foreground FFFFFF tag holding a background 0000FF tag holding "Test"
StackExample ==
    <<Open(TEXT_COLOR_FOREGROUND), <<70, 70, 70, 70, 70, 70>>, SEPARATOR,
      Open(TEXT_COLOR_BACKGROUND), <<48, 48, 48, 48, 70, 70>>, SEPARATOR,
      <<84, 101, 115, 116>>,
      Close(TEXT_COLOR_BACKGROUND), Close(TEXT_COLOR_FOREGROUND)>>

InitRender ==
    /\ stream \in WellFormedTags \cup {StackExample}
    /\ input = Flatten(stream)
    /\ CodecIdle
    /\ ProxyIdle
    /\ RenderIdle
    /\ OtherIdle

\* ControlCode::from(T)
Parse ==
    /\ control_code = NotParsed
    /\ control_code' = ControlCodeFrom(input)
    /\ UNCHANGED <<otherVars, stream, input, fed, parts, buf, state, next_index, current_code_stack,
                   readable, ret, frames, proxyVars, rendered>>

\* control_code.to_bytes()
Transform ==
    /\ control_code.ok
    /\ ~rendered.done
    /\ rendered' = [done |-> TRUE, bytes |-> to_bytes(control_code)]
    /\ UNCHANGED <<otherVars, stream, input, fed, parts, buf, state, next_index, current_code_stack,
                   readable, ret, frames, proxyVars, control_code>>

NextRender == Parse \/ Transform

SpecRender == InitRender /\ [][NextRender]_vars

\* ESC directly followed by '<', '>' or '|'
HasDelimiter(bytes) ==
    \E i \in 1..(Len(bytes) - 1) : bytes[i] = ESC /\ bytes[i + 1] \in {LT, GT, BAR}

\* C9: the bytes a well-formed tag is decoded and transformed to hold no
\* ESC<, ESC> or ESC|.
NoDelimiterRemains ==
    rendered.done => ~HasDelimiter(rendered.bytes)

RECURSIVE ConcatRendered(_, _)
ConcatRendered(children, n) ==
    IF n = 0 THEN <<>>
    ELSE ConcatRendered(children, n - 1)
            \o (IF children[n].kind = "Text" THEN children[n].bytes
                ELSE to_bytes(children[n].cc))

\* the tag with its children replaced by one text child
WrapperAround(cc, bytes) == [cc EXCEPT !.children = <<TextContent(bytes)>>]

RECURSIVE Compositional(_)
Compositional(cc) ==
    /\ to_bytes(cc) = to_bytes(WrapperAround(cc, ConcatRendered(cc.children, Len(cc.children))))
    /\ \A i \in 1..Len(cc.children) :
          cc.children[i].kind = "Code" => Compositional(cc.children[i].cc)

\* ESC[38;5;15m ESC[48;5;12m Test ESC[0m ESC[0m
StackExampleRendered ==
    <<ESC, 91, 51, 56, 59, 53, 59, 49, 53, 109>> \o <<ESC, 91, 52, 56, 59, 53, 59, 49, 50, 109>>
        \o <<84, 101, 115, 116>> \o SGR_RESET \o SGR_RESET

\* C13: a tag renders to its own wrapper around the concatenation, in order,
\* of its text children and of the renderings of its child tags, at every
\* level of nesting; white on blue "Test" renders as
\* ESC[38;5;15m ESC[48;5;12m Test ESC[0m ESC[0m.
RenderingCompositional ==
    rendered.done =>
        /\ rendered.bytes = to_bytes(control_code)
        /\ Compositional(control_code)
        /\ stream = StackExample => rendered.bytes = StackExampleRendered

RenderingCompositionalWitness ==
    /\ rendered.done
    /\ stream = StackExample
    /\ Len(control_code.children) = 1
    /\ control_code.children[1].kind = "Code"
    /\ rendered.bytes = StackExampleRendered

\* ------------------------------------------------------ Mapper::try_from

\* "BAT_MAPPER"
BAT_MAPPER == <<66, 65, 84, 95, 77, 65, 80, 80, 69, 82>>

MaxFields == 8

\* what a field of a payload may hold: nothing, "1", two lines, a byte that is
\* not UTF-8
FieldValues == {<<>>, <<49>>, <<97, LF, 98>>, <<255>>}

\* "BAT_MAPPER" ";;" field1 ";;" field2 ... and, if terminated, a last ";;"
RECURSIVE DelimitedFields(_)
DelimitedFields(fields) ==
    IF fields = <<>> THEN <<>>
    ELSE <<DELIMITER, Head(fields)>> \o DelimitedFields(Tail(fields))

MapperPayloads ==
    {<<BAT_MAPPER>> \o DelimitedFields(fields) \o last :
        fields \in UNION {[1..n -> FieldValues] : n \in 0..MaxFields},
        last \in {<<>>, <<DELIMITER>>}}

InitMapper ==
    /\ stream \in MapperPayloads
    /\ input = Flatten(stream)
    /\ CodecIdle
    /\ ProxyIdle
    /\ RenderIdle
    /\ OtherIdle

\* Mapper::try_from(payload)
TryFrom ==
    /\ mapper_result = NotTried
    /\ mapper_result' = MapperTryFrom(input)
    /\ UNCHANGED <<stream, input, decoderVars, proxyVars, renderVars, processVars, sinkVars, colorVars, ioVars>>

NextMapper == TryFrom

SpecMapper == InitMapper /\ [][NextMapper]_vars

\* the payload split on ";;", the delimiters taken from the left
RECURSIVE SplitOnDelimiter(_)
SplitOnDelimiter(b) ==
    LET p == PositionOfDelimiter(b, 0)
    IN  IF p = -1 THEN <<b>>
        ELSE <<Slice(b, 0, p)>> \o SplitOnDelimiter(From(b, p + 2))

BeginsWithBatMapper(b) ==
    /\ Len(b) >= Len(BAT_MAPPER) + 2
    /\ SubSeq(b, 1, Len(BAT_MAPPER) + 2) = BAT_MAPPER \o DELIMITER

\* the tokens after BAT_MAPPER
FurtherTokens(b) == Tail(SplitOnDelimiter(b))

\* the same, an empty last token being the payload's terminating ";;"
FurtherTokensTerminated(b) ==
    LET t == FurtherTokens(b)
    IN  IF t # <<>> /\ t[Len(t)] = <<>> THEN SubSeq(t, 1, Len(t) - 1) ELSE t

Tried == mapper_result # NotTried

InvalidMapper == MapperErr("cannot get correct room data from input")

\* what the parser is said to return for a payload of n further tokens
TotalFor(n) ==
    CASE n = 1 -> mapper_result.ok /\ mapper_result.kind = "Realm"
      [] n = 7 -> mapper_result.ok /\ mapper_result.kind = "Area"
      [] OTHER -> mapper_result = InvalidMapper

\* C11: a payload of UTF-8 text that begins BAT_MAPPER;; gives Realm for 1
\* further token, Area for 7 and the invalid-mapper error for any other number,
\* whichever way a terminating ";;" is counted.
MapperParseTotality ==
    (Tried /\ BeginsWithBatMapper(input) /\ Utf8Valid(input, 0)) =>
        \/ TotalFor(Len(FurtherTokens(input)))
        \/ TotalFor(Len(FurtherTokensTerminated(input)))

\* a payload of 7 tokens after BAT_MAPPER, each followed by ";;"
SevenTokenPayload(b) ==
    /\ BeginsWithBatMapper(b)
    /\ Utf8Valid(b, 0)
    /\ EndsWith(b, DELIMITER)
    /\ Len(FurtherTokensTerminated(b)) = 7

ACTIVATION == <<ESC, 98, 99, 32, 49, LF>>

MaxClientBytes == 2
MaxServerTokens == 2

\* what the client types: a letter, an ESC
ClientBytes == {97, ESC}
ClientInputs == UNION {[1..n -> ClientBytes] : n \in 0..MaxClientBytes}

\* what the server sends meanwhile: text with and without a newline
ServerTokens == {PLAIN, NEWLINE}

\* a connection has been accepted and process() starts
InitProcess ==
    /\ stream \in TokenSeqs(ServerTokens, MaxServerTokens)
    /\ input = Flatten(stream)
    /\ CodecIdle
    /\ ProxyIdle
    /\ RenderIdle
    /\ mapper_result = NotTried
    /\ SinkIdle
    /\ ColorIdle
    /\ IoIdle
    /\ pc = "connect"
    /\ client_input \in ClientInputs
    /\ client_fed = 0
    /\ line = <<>>
    /\ c2s = "running"
    /\ to_server = <<>>
    /\ server_wr = "open"
    /\ client_wr = "open"

\* process returns: client and server are dropped, which closes both sockets
Drop ==
    /\ server_wr' = "closed"
    /\ client_wr' = "closed"

\* TcpStream::connect(remote_addr).await?
Connect ==
    /\ pc = "connect"
    /\ \/ pc' = "activate" /\ UNCHANGED <<server_wr, client_wr>>
       \/ pc' = "failed" /\ Drop
    /\ UNCHANGED <<stream, input, decoderVars, proxyVars, renderVars, mapper_result, sinkVars, colorVars, ioVars,
                   client_input, client_fed, line, c2s, to_server>>

\* an activation that is written twice
ActivateTwice ==
    /\ pc = "activate"
    /\ to_server' = to_server \o ACTIVATION \o ACTIVATION
    /\ pc' = "forward"
    /\ UNCHANGED <<stream, input, decoderVars, proxyVars, renderVars, mapper_result, sinkVars, colorVars, ioVars,
                   client_input, client_fed, line, c2s, server_wr, client_wr>>

\* server.write_all(bc_mode).await succeeds
Activate ==
    /\ pc = "activate"
    /\ to_server' = to_server \o ACTIVATION
    /\ pc' = "forward"
    /\ UNCHANGED <<stream, input, decoderVars, proxyVars, renderVars, mapper_result, sinkVars, colorVars, ioVars,
                   client_input, client_fed, line, c2s, server_wr, client_wr>>

\* server.write_all(bc_mode).await? fails after k bytes
ActivateFails(k) ==
    /\ pc = "activate"
    /\ to_server' = to_server \o SubSeq(ACTIVATION, 1, k)
    /\ pc' = "failed"
    /\ Drop
    /\ UNCHANGED <<stream, input, decoderVars, proxyVars, renderVars, mapper_result, sinkVars, colorVars, ioVars,
                   client_input, client_fed, line, c2s>>

\* the forwarders awaited one after the other
ClientPolledAfterServer == pc = "forward" /\ c2s = "running" /\ s2c = "done"

\* try_join! polls client_to_server as long as it has not completed
ClientPolled == pc = "forward" /\ c2s = "running"

\* try_join! polls server_to_client as long as it has not completed
ServerPolled == pc = "forward" /\ s2c = "running"

\* a decoder that loses the last byte of the buffer
ClientCodecDecodeDropsLast(b) ==
    IF b # <<>> THEN [some |-> TRUE, frame |-> SubSeq(b, 1, Len(b) - 1), buf |-> <<>>]
    ELSE [some |-> FALSE, buf |-> b]

\* the decoder of client_to_server: the whole buffer is one frame
ClientCodecDecode(b) ==
    IF b # <<>> THEN [some |-> TRUE, frame |-> SubSeq(b, 1, Len(b)), buf |-> <<>>]
    ELSE [some |-> FALSE, buf |-> b]

\* transport.next() yields the k bytes the client sent next
ClientRead(k) ==
    /\ ClientPolled
    /\ line = <<>>
    /\ k >= 1
    /\ client_fed + k <= Len(client_input)
    /\ LET r == ClientCodecDecode(SubSeq(client_input, client_fed + 1, client_fed + k))
       IN  /\ r.some
           /\ line' = r.frame
           /\ client_fed' = client_fed + k - Len(r.buf)
    /\ UNCHANGED <<stream, input, decoderVars, proxyVars, renderVars, mapper_result, sinkVars, colorVars, ioVars,
                   pc, client_input, c2s, to_server, server_wr, client_wr>>

\* transport.next() yields an error: client_to_server returns it
ClientReadFails ==
    /\ ClientPolled
    /\ line = <<>>
    /\ c2s' = "read failed"
    /\ UNCHANGED <<stream, input, decoderVars, proxyVars, renderVars, mapper_result, sinkVars, colorVars, ioVars,
                   pc, client_input, client_fed, line, to_server, server_wr, client_wr>>

\* writer.write_all(&line).await succeeds
ClientWrite ==
    /\ ClientPolled
    /\ line # <<>>
    /\ to_server' = to_server \o line
    /\ line' = <<>>
    /\ UNCHANGED <<stream, input, decoderVars, proxyVars, renderVars, mapper_result, sinkVars, colorVars, ioVars,
                   pc, client_input, client_fed, c2s, server_wr, client_wr>>

\* writer.write_all(&line).await? fails after k bytes
ClientWriteFails(k) ==
    /\ ClientPolled
    /\ line # <<>>
    /\ k < Len(line)
    /\ to_server' = to_server \o SubSeq(line, 1, k)
    /\ line' = <<>>
    /\ c2s' = "write failed"
    /\ UNCHANGED <<stream, input, decoderVars, proxyVars, renderVars, mapper_result, sinkVars, colorVars, ioVars,
                   pc, client_input, client_fed, server_wr, client_wr>>

\* transport.next() yields None: the client has closed, client_to_server
\* returns Ok(())
ClientEof ==
    /\ ClientPolled
    /\ line = <<>>
    /\ client_fed = Len(client_input)
    /\ c2s' = "done"
    /\ UNCHANGED <<stream, input, decoderVars, proxyVars, renderVars, mapper_result, sinkVars, colorVars, ioVars,
                   pc, client_input, client_fed, line, to_server, server_wr, client_wr>>

ClientStep ==
    \/ \E k \in 1..MaxClientBytes : ClientRead(k)
    \/ ClientReadFails
    \/ ClientWrite
    \/ \E k \in 0..MaxClientBytes : ClientWriteFails(k)
    \/ ClientEof

ServerStep ==
    /\ ServerPolled
    /\ \/ \E k \in 1..Len(input) : ServerRead(k)
       \/ ServerEof
       \/ ServerToClient

\* try_join!(server_to_client, client_to_server)?: the first error ends
\* process and drops the other forwarder
JoinErr ==
    /\ pc = "forward"
    /\ c2s \notin {"running", "done"} \/ s2c \notin {"running", "done"}
    /\ pc' = "failed"
    /\ Drop
    /\ UNCHANGED <<stream, input, decoderVars, proxyVars, renderVars, mapper_result, sinkVars, colorVars, ioVars,
                   client_input, client_fed, line, c2s, to_server>>

\* both forwarders have returned Ok(()): process returns Ok(())
JoinOk ==
    /\ pc = "forward"
    /\ c2s = "done"
    /\ s2c = "done"
    /\ pc' = "closed"
    /\ Drop
    /\ UNCHANGED <<stream, input, decoderVars, proxyVars, renderVars, mapper_result, sinkVars, colorVars, ioVars,
                   client_input, client_fed, line, c2s, to_server>>

NextProcess ==
    \/ Connect
    \/ Activate
    \/ \E k \in 0..(Len(ACTIVATION) - 1) : ActivateFails(k)
    \/ ClientStep
    \/ ServerStep
    \/ JoinErr
    \/ JoinOk

SpecProcess == InitProcess /\ [][NextProcess]_vars

IsPrefix(a, b) == Len(a) <= Len(b) /\ a = SubSeq(b, 1, Len(a))

\* C14: the server receives the 6 activation bytes once, before any byte of
\* the client: nothing is written before them, and what follows them is only
\* what the client sent.
ActivationFirstAndOnce ==
    /\ pc \in {"connect", "activate"} => to_server = <<>>
    /\ pc \in {"forward", "closed"} => IsPrefix(ACTIVATION, to_server)
    /\ IsPrefix(to_server, ACTIVATION \o client_input)

ActivationFirstAndOnceWitness ==
    /\ pc = "forward"
    /\ IsPrefix(ACTIVATION, to_server)
    /\ Len(to_server) > Len(ACTIVATION)
    /\ client_fed < Len(client_input)

\* what has been written to the server after the activation line
AfterActivation == SubSeq(to_server, Len(ACTIVATION) + 1, Len(to_server))

\* C15: after the activation line the bytes written to the server are the
\* bytes read from the client, in order, nothing added, dropped or changed:
\* what is written plus the frame in flight is what has been read, and when
\* client_to_server returns Ok(()) the server has received the client's whole
\* input.
ClientBytesVerbatim ==
    /\ (IsPrefix(ACTIVATION, to_server) /\ c2s \in {"running", "done", "read failed"})
           => AfterActivation \o line = SubSeq(client_input, 1, client_fed)
    /\ c2s = "write failed"
           => IsPrefix(AfterActivation, SubSeq(client_input, 1, client_fed))
    /\ c2s = "done" => to_server = ACTIVATION \o client_input

ClientBytesVerbatimWitness ==
    /\ c2s = "done"
    /\ Len(client_input) = MaxClientBytes
    /\ \E i \in 1..Len(client_input) : client_input[i] = ESC
    /\ AfterActivation = client_input

\* C16: when the client's read side has reached EOF the write side to the
\* server is shut down, when the server's read side has reached EOF the write
\* side to the client is shut down, and both sockets are closed once both
\* directions have finished.
HalfCloseOnEof ==
    /\ c2s = "done" => server_wr # "open"
    /\ s2c = "done" => client_wr # "open"
    /\ pc = "closed" => (server_wr = "closed" /\ client_wr = "closed")

\* C17: neither direction blocks the other. Whatever the state of
\* server_to_client (waiting for server data, in the middle of a frame, done),
\* client_to_server can read the bytes that have arrived from the client and
\* write the frame it holds; and whatever the state of client_to_server,
\* server_to_client can take its next step.
NeitherBlocksTheOther ==
    /\ (pc = "forward" /\ c2s = "running" /\ line = <<>> /\ client_fed < Len(client_input))
           => ENABLED (\E k \in 1..MaxClientBytes : ClientRead(k))
    /\ (pc = "forward" /\ c2s = "running" /\ line # <<>>) => ENABLED ClientWrite
    /\ (pc = "forward" /\ s2c = "running") => ENABLED ServerStep

\* server_to_client waits for the rest of the server's data and
\* client_to_server holds a frame, each having forwarded bytes already
NeitherBlocksTheOtherWitness ==
    /\ pc = "forward"
    /\ s2c = "running" /\ ~readable /\ 0 < fed /\ fed < Len(input)
    /\ client_out # <<>>
    /\ c2s = "running" /\ line # <<>>
    /\ Len(to_server) > Len(ACTIVATION)

\* ----------------------------------------------------- persistence sink

\* a realm payload in a mapper tag, as the decoder frames it
REALM_TAG == Open(CUSTOM_INFO) \o BAT_MAPPER \o DELIMITER \o <<114>> \o Close(CUSTOM_INFO)
MapperFrame == DecodeWhole(REALM_TAG).frames[1]

\* enough mapper tags to fill the channel and go on
MaxMapperFrames == 66

InitSink ==
    /\ stream = <<>>
    /\ input = <<>>
    /\ CodecIdle
    /\ ProxyIdle
    /\ RenderIdle
    /\ OtherIdle

\* the messages handed to spawned tasks that the channel has not accepted yet
PendingSends == Len(sink) - Len(channel) - received

\* transport.next() yields a mapper tag and the Code arm handles it
HandleFrame ==
    /\ s2c = "running"
    /\ Len(sink) < MaxMapperFrames
    /\ ret' = MapperFrame
    /\ CodeFrameArm(MapperFrame.code)
    /\ UNCHANGED <<otherVars, stream, input, fed, parts, buf, state, next_index,
                   current_code_stack, readable, frames, eof, renderVars>>

\* a spawned task's tx.send(..).await completes: the channel has room
SpawnedSend ==
    /\ PendingSends > 0
    /\ Len(channel) < CHANNEL_CAPACITY
    /\ channel' = Append(channel, sink[Len(channel) + received + 1])
    /\ UNCHANGED <<stream, input, decoderVars, proxyVars, renderVars, mapper_result,
                   processVars, received, stored, colorVars, ioVars>>

\* handle_db_message: rx.recv() yields a message and upsert_room stores it
DbRecv ==
    /\ channel # <<>>
    /\ channel' = Tail(channel)
    /\ received' = received + 1
    /\ stored' = Append(stored, Head(channel))
    /\ UNCHANGED <<stream, input, decoderVars, proxyVars, renderVars, mapper_result,
                   processVars, colorVars, ioVars>>

NextSink ==
    \/ HandleFrame
    \/ SpawnedSend
    \/ DbRecv

SpecSink == InitSink /\ [][NextSink]_vars

BAT == <<240, 159, 166, 135>>

NoArgument == [some |-> FALSE]
SomeArgument(bytes) == [some |-> TRUE, bytes |-> bytes]

\* BatTag::new
BatTagNew(code) == [code |-> code, argument |-> NoArgument, content |-> <<>>]

\* colorize_content(content, color, fg_bg), fg_bg is "38" or "48"
colorize_content(content, color, fg_bg) ==
    LET digit(i) == IF i < Len(color) THEN At(color, i) ELSE 0
        r == (hex_to_u8(digit(0)) * 16 + hex_to_u8(digit(1))) % 256
        g == (hex_to_u8(digit(2)) * 16 + hex_to_u8(digit(3))) % 256
        b == (hex_to_u8(digit(4)) * 16 + hex_to_u8(digit(5))) % 256
        c == IF Len(color) > 6 THEN 0 ELSE rgb_to_xterm(r, g, b)
    IN  <<ESC, 91>> \o fg_bg \o <<59, 53, 59>> \o Decimal(c) \o <<109>> \o content \o SGR_RESET

\* From<BatTag> for BytesMut: the bytes a tag is rendered to, or a panic
BatTagBytes(tag) ==
    LET BytesOk(bytes) == [ok |-> TRUE, bytes |-> bytes]
        BytesPanic == [ok |-> FALSE]
        code == tag.code
        ended == IF tag.content # <<>> /\ tag.content[Len(tag.content)] = LF
                 THEN tag.content ELSE tag.content \o <<LF>>
        lines == SplitOn(ended, LF)
        plain == /\ tag.argument.some
                 /\ tag.argument.bytes \in
                        {<<115, 112, 101, 99, 95, 98, 97, 116, 116, 108, 101>>,
                         MESSAGE_TYPE_SPEC_SPELL, MESSAGE_TYPE_SPEC_SKILL}
        argument == IF tag.argument.some /\ ~plain THEN tag.argument.bytes ELSE <<>>
        style == CASE code[2] = 50 -> 1
                   [] code[2] = 51 -> 3
                   [] code[2] = 52 -> 4
                   [] code[2] = 53 -> 5
                   [] OTHER -> 0
    IN  CASE code = MESSAGE_OF_TYPE ->
               BytesOk(PrefixedLines(lines, Len(lines) - 1,
                                     IF plain THEN <<>>
                                     ELSE BAT \o <<49, 48>> \o argument \o <<32>>))
          [] code = CLEAR_SCREEN -> BytesOk(BAT \o <<49, 49>>)
          [] code \in {TEXT_COLOR_FOREGROUND, TEXT_COLOR_BACKGROUND} ->
               IF ~tag.argument.some THEN BytesPanic
               ELSE BytesOk(colorize_content(tag.content, tag.argument.bytes,
                                             IF code[2] = 48 THEN <<51, 56>> ELSE <<52, 56>>))
          [] code \in {TEXT_BOLD, TEXT_ITALIC, TEXT_UNDERLINE, TEXT_BLINK, TEXT_RESET} ->
               BytesOk(<<ESC, 91, style, 109>> \o tag.content)
          [] code \in {TEXT_HYPERLINK, TEXT_IN_GAME_LINK} -> BytesOk(tag.content)
          [] code = CUSTOM_INFO ->
               BytesOk(PrefixedLines(lines, Len(lines) - 1, BAT \o <<57, 57, 32>>)
                           \o BAT \o <<57, 57>> \o BAT \o <<LF>>)
          [] OTHER -> BytesOk(BAT \o code \o <<32>> \o tag.content \o <<LF>> \o IAC_GA)

without_carriage_return(bytes) ==
    IF bytes # <<>> /\ bytes[Len(bytes)] = 13 THEN SubSeq(bytes, 1, Len(bytes) - 1) ELSE bytes

FrameTag(tag) == [kind |-> "Tag", tag |-> tag]

\* tags.last_mut(), then a change of that tag
WithTop(c, tag) ==
    [c EXCEPT !.current_code_stack[Len(c.current_code_stack)] = tag]

\* the arm of ServerCodec::decode for ESC|: the content so far becomes the
\* argument of the innermost open tag
ArgumentArm(c) ==
    IF c.current_code_stack = <<>> THEN Returned(c, FramePanic)
    ELSE LET tag == c.current_code_stack[Len(c.current_code_stack)]
             set == [tag EXCEPT !.argument = SomeArgument(tag.content), !.content = <<>>]
         IN  Returned([WithTop(c, set) EXCEPT !.buf = From(c.buf, 1), !.state = "Tag"],
                      FrameContinue)

\* ServerCodec::decode: the loop runs until an arm returns; c.state is
\* decoder_state, c.current_code_stack is tags
RECURSIVE ServerCodecDecode(_)
ServerCodecDecode(c) ==
    LET b == c.buf
        tags == c.current_code_stack
        top == tags[Len(tags)]
        Text ==
            LET S == {i \in c.next_index..(Len(b) - 1) : At(b, i) \in {LF, ESC, IAC}}
                index == Min(S)
                ch == At(b, index)
                rest == [c EXCEPT !.buf = From(b, index + 1), !.next_index = 0]
            IN  IF c.next_index > Len(b) THEN Returned(c, FramePanic)
                ELSE IF S = {} THEN Returned([c EXCEPT !.next_index = Len(b)], FrameNone)
                ELSE IF index = 0 /\ ch \in {ESC, IAC}
                THEN LET c1 == [c EXCEPT !.buf = From(b, 1),
                                         !.state = IF ch = ESC THEN "ESC" ELSE "IAC"]
                     IN  IF c1.buf = <<>> THEN Returned(c1, FrameNone)
                         ELSE ServerCodecDecode(c1)
                ELSE IF ch = LF
                THEN Returned([rest EXCEPT !.state = "Text"],
                              FrameText(without_carriage_return(Slice(b, 0, index)) \o <<LF>>))
                ELSE Returned([rest EXCEPT !.state = IF ch = ESC THEN "ESC" ELSE "IAC"],
                              FrameText(Slice(b, 0, index)))
        Esc ==
            LET code == <<At(b, 1), At(b, 2)>>
                after == [c EXCEPT !.buf = From(b, 3)]
                popped == [after EXCEPT !.current_code_stack = SubSeq(tags, 1, Len(tags) - 1)]
                bytes == BatTagBytes(top)
                parent == tags[Len(tags) - 1]
            IN  IF b = <<>> THEN Returned(c, FrameNone)
                ELSE IF At(b, 0) \in {LT, GT} /\ Len(b) < 3 THEN Returned(c, FrameNone)
                ELSE IF At(b, 0) = LT
                THEN ServerCodecDecode([after EXCEPT
                         !.current_code_stack = Append(tags, BatTagNew(code)),
                         !.state = "Tag"])
                ELSE IF At(b, 0) = GT
                THEN IF tags = <<>> THEN ServerCodecDecode(after)
                     ELSE IF code # top.code
                     THEN ServerCodecDecode([after EXCEPT !.state = "Tag"])
                     ELSE IF Len(tags) = 1
                     THEN Returned([popped EXCEPT !.state = "Text"], FrameTag(top))
                     ELSE IF ~bytes.ok THEN Returned(after, FramePanic)
                     ELSE ServerCodecDecode(
                              [WithTop(popped, [parent EXCEPT
                                                  !.content = parent.content \o bytes.bytes])
                                  EXCEPT !.state = "Tag"])
                ELSE IF At(b, 0) = BAR
                THEN LET r == ArgumentArm(c)
                     IN  IF r.frame = FramePanic THEN r ELSE ServerCodecDecode(r.codec)
                ELSE IF tags = <<>>
                THEN Returned([c EXCEPT !.state = "Text"], FrameText(<<ESC>>))
                ELSE ServerCodecDecode(
                         [WithTop(c, [top EXCEPT !.content = top.content \o <<ESC>>])
                             EXCEPT !.state = "Tag"])
        Tag ==
            LET index == PositionOf(b, c.next_index, ESC)
            IN  IF c.next_index > Len(b) THEN Returned(c, FramePanic)
                ELSE IF index = -1
                THEN Returned([c EXCEPT !.next_index = Len(b)], FrameNone)
                ELSE IF tags = <<>> THEN Returned(c, FramePanic)
                ELSE ServerCodecDecode(
                         [WithTop(c, [top EXCEPT !.content = top.content \o Slice(b, 0, index)])
                             EXCEPT !.buf = From(b, index + 1), !.next_index = 0,
                                    !.state = "ESC"])
        Iac ==
            IF b = <<>> THEN Returned(c, FrameNone)
            ELSE IF At(b, 0) \in {251, 252, 253, 254}
            THEN IF Len(b) < 2 THEN Returned(c, FrameNone)
                 ELSE Returned([c EXCEPT !.buf = From(b, 2), !.state = "Text"],
                               FrameText(<<IAC, At(b, 0), At(b, 1)>>))
            ELSE IF At(b, 0) = 250 THEN ServerCodecDecode([c EXCEPT !.state = "IACSub"])
            ELSE Returned([c EXCEPT !.buf = From(b, 1), !.state = "Text"],
                          FrameText(<<IAC, At(b, 0)>>))
        \* no IAC_SE in the buffer: the loop goes round without returning
        IacSub ==
            LET se == PositionOf(b, c.next_index, 240)
            IN  IF c.next_index > Len(b) THEN Returned(c, FramePanic)
                ELSE IF se = -1 THEN Returned(c, [kind |-> "Hang"])
                ELSE Returned([c EXCEPT !.buf = From(b, se + 1), !.state = "Text"],
                              FrameText(<<IAC>> \o Slice(b, 0, se + 1)))
    IN  IF Len(b) = 1 /\ At(b, 0) = LF THEN Returned(c, FrameErr("seems dead!"))
        ELSE CASE c.state = "Text" -> Text
               [] c.state = "ESC" -> Esc
               [] c.state = "Tag" -> Tag
               [] c.state = "IAC" -> Iac
               [] c.state = "IACSub" -> IacSub

MaxServerCodecTokens == 5

ServerCodecTokens == {PLAIN, NEWLINE, SEPARATOR, Open(TEXT_BOLD), Close(TEXT_BOLD)}

InitServerCodec ==
    /\ stream \in TokenSeqs(ServerCodecTokens, MaxServerCodecTokens)
    /\ input = Flatten(stream)
    /\ CodecIdle
    /\ ProxyIdle
    /\ RenderIdle
    /\ OtherIdle

\* one call of ServerCodec::decode by the FramedRead
ServerDecode ==
    /\ readable
    /\ LET r == ServerCodecDecode(Codec)
           stops == r.frame.kind \in {"None", "Err", "Panic", "Hang"}
       IN  /\ SetCodec(r.codec)
           /\ ret' = r.frame
           /\ readable' = ~stops
           /\ frames' = IF stops THEN frames ELSE Append(frames, r.frame)
    /\ UNCHANGED <<otherVars, stream, input, fed, parts, proxyVars, renderVars>>

NextServerCodec ==
    \/ \E k \in 1..Len(input) : Feed(k)
    \/ ServerDecode

SpecServerCodec == InitServerCodec /\ [][NextServerCodec]_vars

\* C19: ServerCodec.decode never panics, and the two bytes ESC| that arrive
\* while no tag is open go to the client as literal text.
ServerDecodeNeverPanics ==
    /\ ret.kind # "Panic"
    /\ (Drained /\ stream = <<SEPARATOR>>) => Flatten([i \in 1..Len(frames) |-> frames[i].bytes]) = SEPARATOR

\* one tag whose body is text and ESC| delimiters, one delimiter at least
OneTagWithArgument(s) ==
    /\ Len(s) >= 3
    /\ s[1] = Open(TEXT_BOLD)
    /\ s[Len(s)] = Close(TEXT_BOLD)
    /\ \A i \in 2..(Len(s) - 1) : s[i] \in {PLAIN, SEPARATOR}
    /\ \E i \in 2..(Len(s) - 1) : s[i] = SEPARATOR

\* the text between the opening of the tag and its first ESC|
FirstArgument(s) ==
    LET first == Min({i \in 2..(Len(s) - 1) : s[i] = SEPARATOR})
    IN  Flatten(SubSeq(s, 2, first - 1))

\* C20: within one tag the argument is set at most once, by the first ESC|:
\* the tag that is framed carries as its argument the text before its first
\* ESC|, whatever ESC| delimiters follow in the same tag.
ArgumentSetOnce ==
    (Drained /\ OneTagWithArgument(stream)) =>
        /\ Len(frames) = 1
        /\ frames[1].kind = "Tag"
        /\ frames[1].tag.argument = SomeArgument(FirstArgument(stream))

\* ------------------------------------------------------------ rgb_to_xterm

\* the values a channel takes: those of the base colours and of some
\* greyscale steps, and values between them
ChannelValues == {0, 8, 95, 128, 192, 238, 255}

\* a colour r, g, b
InitColor ==
    /\ stream = <<>>
    /\ input \in [1..3 -> ChannelValues]
    /\ CodecIdle
    /\ ProxyIdle
    /\ RenderIdle
    /\ OtherIdle

\* one call of rgb_to_xterm
Convert ==
    /\ ~xterm.done
    /\ xterm' = [done |-> TRUE, value |-> rgb_to_xterm(input[1], input[2], input[3])]
    /\ UNCHANGED <<stream, input, decoderVars, proxyVars, renderVars, mapper_result,
                   processVars, sinkVars, ioVars>>

NextColor == Convert

SpecColor == InitColor /\ [][NextColor]_vars

\* C21: rgb_to_xterm returns the index 0..15 of the base colour the packed
\* value equals (tested first: 808080 gives 8), else 232 + i for greyscale
\* step i, else 16 + 36*(r*5/255) + 6*(g*5/255) + (b*5/255).
XtermByTable ==
    xterm.done =>
        LET r == input[1]
            g == input[2]
            b == input[3]
            rgb == r * 65536 + g * 256 + b
            bases == {i \in 0..15 : BASE_COLORS[i + 1] = rgb}
            steps == {i \in 0..23 : GREYS[i + 1] = rgb}
        IN  /\ bases # {} => xterm.value \in bases
            /\ (bases = {} /\ steps # {}) => \E i \in steps : xterm.value = 232 + i
            /\ (bases = {} /\ steps = {}) =>
                   xterm.value = 16 + 36 * ((r * 5) \div 255) + 6 * ((g * 5) \div 255)
                                    + ((b * 5) \div 255)
            /\ xterm.value \in 0..255

\* 808080 has been converted, to 8
XtermByTableWitness ==
    /\ xterm.done
    /\ input = <<128, 128, 128>>
    /\ xterm.value = 8

\* ---------------------------------------------------- ServerCodec, telnet

IAC_SB == <<IAC, 250>>
IAC_SE == <<IAC, 240>>
IAC_IAC == <<IAC, IAC>>

MaxTelnetTokens == 4

TelnetTokens == {PLAIN, NEWLINE, IAC_SB, IAC_SE, IAC_IAC, IAC_GA}

InitServerTelnet ==
    /\ stream \in TokenSeqs(TelnetTokens, MaxTelnetTokens)
    /\ input = Flatten(stream)
    /\ CodecIdle
    /\ ProxyIdle
    /\ RenderIdle
    /\ OtherIdle

SpecServerTelnet == InitServerTelnet /\ [][NextServerCodec]_vars

\* impl From<BatFrame> for Bytes: what a frame gives the client
FrameBytes(frame) ==
    IF frame.kind = "Text" THEN frame.bytes ELSE BatTagBytes(frame.tag).bytes

\* the bytes of the frames decoded so far
Delivered == Flatten([i \in 1..Len(frames) |-> FrameBytes(frames[i])])

\* C22: ServerCodec.decode always returns: with an IAC SB whose SE has not
\* arrived it returns no frame and waits, and once SE has arrived the whole
\* subnegotiation IAC SB ... IAC SE is one frame, verbatim.
SubnegotiationWaitsForSe ==
    /\ ret.kind # "Hang"
    /\ (Drained /\ stream = <<IAC_SB, PLAIN, IAC_SE>>) => frames = <<FrameText(input)>>

\* C23: a closing tag that arrives while no tag is open is discarded and the
\* decoder is back in Text: the client gets no byte that was not in the
\* input, and the text lines after the closing tag reach it as they are.
StrayCloseBackToText ==
    (/\ Drained
     /\ stream # <<>>
     /\ stream[1] = Close(TEXT_BOLD)
     /\ \A i \in 2..Len(stream) : stream[i] \in {PLAIN, NEWLINE}) =>
        /\ IsPrefix(Delivered, Flatten(Tail(stream)))
        /\ (~Halted /\ stream[Len(stream)] = NEWLINE) => Delivered = Flatten(Tail(stream))

\* a stream of text and escaped IAC IAC pairs that ends with a pair
EscapedPairs(s) ==
    /\ s # <<>>
    /\ \A i \in 1..Len(s) : s[i] \in {PLAIN, IAC_IAC}
    /\ s[Len(s)] = IAC_IAC

\* C24: an escaped pair IAC IAC reaches the client as one 0xFF byte.
EscapedIacIsOneByte ==
    (Drained /\ EscapedPairs(stream)) =>
        Delivered = Flatten([i \in 1..Len(stream) |->
                                 IF stream[i] = IAC_IAC THEN <<IAC>> ELSE stream[i]])

\* ------------------------------------------ BatMudCodec: the byte after ESC

\* text, newlines and lone ESC bytes only
EscapesAndText(s) == \A i \in 1..Len(s) : s[i] \in {PLAIN, NEWLINE, BARE_ESC}

\* the frame is one line: its only newline is its last byte
OneLine(frame) ==
    /\ frame.kind = "Text"
    /\ \A i \in 1..Len(frame.bytes) : (frame.bytes[i] = LF) <=> (i = Len(frame.bytes))

\* C25: the byte after an ESC that starts no tag is still read by the rules
\* of the Text state: a newline right after the ESC ends the line, and an ESC
\* right after the ESC opens the tag it starts.
ByteAfterEscStillClassified ==
    /\ (Drained /\ EscapesAndText(stream)) =>
           \A i \in 1..Len(frames) : OneLine(frames[i])
    /\ (Drained /\ stream = <<BARE_ESC, Open(CUSTOM_INFO), PLAIN, Close(CUSTOM_INFO)>>) =>
           \E i \in 1..Len(frames) : frames[i].kind = "Code"

\* ------------------------------------ BatMudCodec: tags without two digits

\* two bytes that are not ASCII digits, where a tag's code is expected
NOT_DIGITS == <<97, 98>>

NotDigitTokens ==
    {PLAIN, NEWLINE, Open(NOT_DIGITS), Close(NOT_DIGITS),
     Open(CUSTOM_INFO), Close(CUSTOM_INFO)}

InitCodecNotDigits ==
    /\ stream \in TokenSeqs(NotDigitTokens, MaxTokens)
    /\ input = Flatten(stream)
    /\ CodecIdle
    /\ ProxyIdle
    /\ RenderIdle
    /\ OtherIdle

SpecCodecNotDigits == InitCodecNotDigits /\ [][NextCodec]_vars

IsDigit(byte) == byte \in 48..57

\* decode is about to read an ESC< or ESC> whose two code bytes have arrived
\* and are not both digits
AtNotDigitTag ==
    /\ readable
    /\ state = "Esc"
    /\ Len(buf) > next_index + 2
    /\ At(buf, next_index) \in {LT, GT}
    /\ ~(IsDigit(At(buf, next_index + 1)) /\ IsDigit(At(buf, next_index + 2)))

\* C26: an ESC< or ESC> whose next two bytes are not both digits opens and
\* closes nothing: the call of decode that reads it leaves the stack of open
\* tags as it was, and the decoder is in Text afterwards (or has returned the
\* text in front of it first).
NotDigitTagIgnored ==
    [][AtNotDigitTag =>
           /\ current_code_stack' = current_code_stack
           /\ state' = "Text" \/ ret'.kind = "Text"]_vars

\* ----------------------------------------- to_bytes: code 10 and code 99

\* a code-10 tag with the argument "a", which is no special message type,
\* and a body of text and newlines
GenericMessage(s) ==
    /\ Len(s) >= 4
    /\ s[1] = Open(MESSAGE_OF_TYPE)
    /\ s[2] = PLAIN
    /\ s[3] = SEPARATOR
    /\ s[Len(s)] = Close(MESSAGE_OF_TYPE)
    /\ \A i \in 4..(Len(s) - 1) : s[i] \in {PLAIN, NEWLINE}

\* the bytes between the ESC| and the closing tag
BodyAfterArgument(s) == Flatten(SubSeq(s, 4, Len(s) - 1))

\* every newline-terminated line with head in front of it, a last part
\* without newline as it is
RECURSIVE EveryLinePrefixed(_, _, _)
EveryLinePrefixed(bytes, head, part) ==
    IF bytes = <<>> THEN part
    ELSE IF Head(bytes) = LF
         THEN head \o part \o <<LF>> \o EveryLinePrefixed(Tail(bytes), head, <<>>)
         ELSE EveryLinePrefixed(Tail(bytes), head, Append(part, Head(bytes)))

\* C27: a code-10 tag with an ordinary argument is rendered line by line,
\* PREFIX argument ": " line newline, and a last part of the body without a
\* newline is passed through, so no byte of the body is lost.
GenericMessageKeepsBody ==
    (rendered.done /\ GenericMessage(stream)) =>
        rendered.bytes =
            EveryLinePrefixed(BodyAfterArgument(stream), PREFIX \o PLAIN \o <<58, 32>>, <<>>)

\* "spec_battle"
SPEC_BATTLE == <<115, 112, 101, 99, 95, 98, 97, 116, 116, 108, 101>>

MaxBodyTokens == 3

\* the tags the server sends for messages and for custom info: a code-10 tag
\* with one of the three spec_ arguments, a code-99 tag with any body, and a
\* code-99 area-room mapper tag, whose seventh field is the long description
RenderTags ==
    LET Lines == TokenSeqs({PLAIN, NEWLINE}, MaxBodyTokens)
        Bodies == TokenSeqs({PLAIN, NEWLINE, DELIMITER}, MaxBodyTokens)
        Arguments == {SPEC_BATTLE, MESSAGE_TYPE_SPEC_SPELL, MESSAGE_TYPE_SPEC_SKILL}
        Area(long) == <<BAT_MAPPER, DELIMITER, PLAIN, DELIMITER, PLAIN, DELIMITER, PLAIN,
                        DELIMITER, PLAIN, DELIMITER, PLAIN, DELIMITER>>
                          \o long \o <<DELIMITER, PLAIN, DELIMITER>>
    IN  {<<Open(MESSAGE_OF_TYPE), arg, SEPARATOR>> \o body \o <<Close(MESSAGE_OF_TYPE)>> :
             arg \in Arguments, body \in Lines}
        \cup {<<Open(CUSTOM_INFO)>> \o body \o <<Close(CUSTOM_INFO)>> : body \in Bodies}
        \cup {<<Open(CUSTOM_INFO)>> \o Area(long) \o <<Close(CUSTOM_INFO)>> : long \in Lines}

InitRenderTags ==
    /\ stream \in RenderTags
    /\ input = Flatten(stream)
    /\ CodecIdle
    /\ ProxyIdle
    /\ RenderIdle
    /\ OtherIdle

SpecRenderTags == InitRenderTags /\ [][NextRender]_vars

\* a code-10 tag whose argument is spec_battle, spec_spell or spec_skill
SpecMessage(s) ==
    /\ s[1] = Open(MESSAGE_OF_TYPE)
    /\ s[2] \in {SPEC_BATTLE, MESSAGE_TYPE_SPEC_SPELL, MESSAGE_TYPE_SPEC_SKILL}
    /\ s[3] = SEPARATOR

\* C28: a code-10 tag whose argument is spec_battle, spec_spell or spec_skill
\* is rendered as its body, byte for byte, without wrapper and without prefix.
SpecMessageIsBody ==
    (rendered.done /\ SpecMessage(stream)) => rendered.bytes = BodyAfterArgument(stream)

\* a code-99 tag whose body does not begin with BAT_MAPPER;;
PlainInfo(s) == s[1] = Open(CUSTOM_INFO) /\ s[2] # BAT_MAPPER

\* the bytes between the opening and the closing tag
BodyOf(s) == Flatten(SubSeq(s, 2, Len(s) - 1))

\* the text of some bytes: what is left without newlines and prefixes
TextOf(bytes) == SelectSeq(bytes, LAMBDA b : b \in {97, SEMI})

\* C29: a code-99 tag that is no mapper payload is rendered as an info block:
\* the output starts with PREFIX "99:" and holds the text of the body, none
\* of it lost.
PlainInfoKeepsBody ==
    (rendered.done /\ PlainInfo(stream) /\ TextOf(BodyOf(stream)) # <<>>) =>
        /\ IsPrefix(PREFIX \o CUSTOM_INFO \o <<58>>, rendered.bytes)
        /\ TextOf(rendered.bytes) = TextOf(BodyOf(stream))

\* a code-99 area-room mapper tag: BAT_MAPPER and seven more fields, each
\* followed by ";;"
AreaTag(s) == s[1] = Open(CUSTOM_INFO) /\ s[2] = BAT_MAPPER

\* its seventh field, the long description
LongOf(s) == Flatten(SubSeq(s, 14, Len(s) - 4))

\* every line with head in front of it and a newline behind it, the last
\* line also when it has no newline of its own
RECURSIVE EachLinePrefixed(_, _, _)
EachLinePrefixed(bytes, head, part) ==
    IF bytes = <<>> THEN (IF part = <<>> THEN <<>> ELSE head \o part \o <<LF>>)
    ELSE IF Head(bytes) = LF
         THEN head \o part \o <<LF>> \o EachLinePrefixed(Tail(bytes), head, <<>>)
         ELSE EachLinePrefixed(Tail(bytes), head, Append(part, Head(bytes)))

\* C30: an area-room mapper tag is rendered as one prefixed line with all
\* fields but the long description, each followed by ";;", and then one
\* prefixed line for every line of the long description, its last line
\* included when that line has no newline.
AreaKeepsLongDescription ==
    (rendered.done /\ AreaTag(stream) /\ LongOf(stream) # <<>>) =>
        LET head == PREFIX \o CUSTOM_INFO \o <<58>>
        IN  rendered.bytes =
                head \o Flatten(SubSeq(stream, 2, 13)) \o PLAIN \o DELIMITER \o <<LF>>
                    \o EachLinePrefixed(LongOf(stream), head, <<>>)

\* ---------------------------------------------------- to_bytes: the styles

StyleCodes == {TEXT_BOLD, TEXT_ITALIC, TEXT_UNDERLINE, TEXT_BLINK}

\* a bold, italic, underline or blink tag around some lines of text
InitRenderStyles ==
    /\ stream \in {<<Open(code)>> \o body \o <<Close(code)>> :
                       code \in StyleCodes,
                       body \in TokenSeqs({PLAIN, NEWLINE}, MaxBodyTokens)}
    /\ input = Flatten(stream)
    /\ CodecIdle
    /\ ProxyIdle
    /\ RenderIdle
    /\ OtherIdle

SpecRenderStyles == InitRenderStyles /\ [][NextRender]_vars

\* the SGR number of a style tag, as an ASCII digit: 22 is bold (1), 23 is
\* italic (3), 24 is underline (4), 25 is blink (5)
StyleDigit(code) ==
    CASE code = TEXT_BOLD -> 49
      [] code = TEXT_ITALIC -> 51
      [] code = TEXT_UNDERLINE -> 52
      [] code = TEXT_BLINK -> 53

\* C31: a tag 22, 23, 24 or 25 is rendered as ESC[1m, ESC[3m, ESC[4m or
\* ESC[5m, then its body, then ESC[0m.
StyleIsSgrDigit ==
    (rendered.done /\ CodeOf(stream[1]) \in StyleCodes) =>
        rendered.bytes = <<ESC, 91, StyleDigit(CodeOf(stream[1])), 109>>
                             \o BodyOf(stream) \o SGR_RESET

\* ------------------------------------------- BatTag to bytes: colour tags

MaxColorTagTokens == 4

\* text, ESC|, and a colour tag and a bold tag that may hold each other
ColorTagTokens ==
    {PLAIN, SEPARATOR, Open(TEXT_COLOR_FOREGROUND), Close(TEXT_COLOR_FOREGROUND),
     Open(TEXT_BOLD), Close(TEXT_BOLD)}

InitServerColorTags ==
    /\ stream \in TokenSeqs(ColorTagTokens, MaxColorTagTokens)
    /\ input = Flatten(stream)
    /\ CodecIdle
    /\ ProxyIdle
    /\ RenderIdle
    /\ OtherIdle

SpecServerColorTags == InitServerColorTags /\ [][NextServerCodec]_vars

\* the next call of decode closes the innermost open tag inside its parent:
\* the child is converted to bytes and added to the parent's content
ClosesChild ==
    /\ readable
    /\ state = "ESC"
    /\ Len(buf) >= 3
    /\ At(buf, 0) = GT
    /\ Len(current_code_stack) >= 2
    /\ <<At(buf, 1), At(buf, 2)>> = Top(current_code_stack).code

\* C32: converting a BatTag to bytes never fails, neither for a tag that is
\* framed and sent to the client nor for a tag that is closed inside its
\* parent, and a colour tag without argument is no exception.
TagToBytesNeverFails ==
    /\ \A i \in 1..Len(frames) : frames[i].kind = "Tag" => BatTagBytes(frames[i].tag).ok
    /\ ClosesChild => BatTagBytes(Top(current_code_stack)).ok

\* --------------------------------------------- BatMudCodec: NeedMore, cursor

\* no newline, ESC or IAC in the buffer from the scan cursor on
NoBreakAhead ==
    \A i \in next_index..(Len(buf) - 1) : At(buf, i) \notin {LF, ESC, IAC}

\* C33: a call of decode that returns NeedMore leaves the buffer, the state
\* and the stack of open tags as they were; only the scan cursor may move, and
\* then it moves to the end of the buffer, no newline, ESC or IAC being ahead.
NeedMoreChangesCursorOnly ==
    [][(readable /\ ret'.kind = "None") =>
           /\ buf' = buf
           /\ state' = state
           /\ current_code_stack' = current_code_stack
           /\ \/ next_index' = next_index
              \/ next_index' = Len(buf) /\ state = "Text" /\ NoBreakAhead]_vars

\* decode has returned NeedMore with text in the buffer, inside an open tag,
\* and the cursor is at the end of the buffer
NeedMoreWitness ==
    /\ ~readable
    /\ ret.kind = "None"
    /\ current_code_stack # <<>>
    /\ buf # <<>>
    /\ next_index = Len(buf)
    /\ At(buf, Len(buf) - 1) = 97

\* ------------------------------------ BatMudCodec: the depth of the stack

MaxOpenTags == 33

\* the server sends opening tags only, none of them closed
InitCodecOpens ==
    /\ stream \in {[i \in 1..n |-> Open(MESSAGE_OF_TYPE)] : n \in 0..MaxOpenTags}
    /\ input = Flatten(stream)
    /\ CodecIdle
    /\ ProxyIdle
    /\ RenderIdle
    /\ OtherIdle

\* a read that brings the four bytes of one opening tag
FeedTag == Feed(4)

NextCodecOpens == FeedTag \/ Decode

SpecCodecOpens == InitCodecOpens /\ [][NextCodecOpens]_vars

\* C34: the stack of open tags never holds more than 32 tags: an opening tag
\* beyond that is a protocol error and is not pushed.
StackDepthCapped ==
    /\ Len(current_code_stack) <= 32
    /\ (Drained /\ Len(stream) > 32) => ret.kind = "Err"

\* ------------------------------------------- ServerCodec: the empty line

\* C35: ServerCodec.decode never returns an error, and a buffer that holds
\* one newline and nothing else is decoded to a text frame of that one byte.
EmptyLineIsAFrame ==
    /\ ret.kind # "Err"
    /\ (Drained /\ stream = <<NEWLINE>>) => frames = <<FrameText(<<LF>>)>>

\* ----------------------------------- BatMudCodec: complete lines held back

\* C36: when the bytes received so far end with a newline and no tag is open
\* (the stream holds text, newlines and lone ESC bytes only), decode called
\* until it returns NeedMore has emitted every byte and the buffer is empty.
NoCompleteLineHeldBack ==
    (/\ Drained
     /\ EscapesAndText(stream)
     /\ stream # <<>>
     /\ stream[Len(stream)] = NEWLINE) =>
        /\ buf = <<>>
        /\ Flatten([i \in 1..Len(frames) |-> frames[i].bytes]) = input

\* ------------------------------------- persistence sink: order of records

MaxRooms == 4

\* the mapper tag of room number n, as the decoder frames it
RoomFrame(n) ==
    LET field == <<PLAIN, DELIMITER>>
        payload == <<BAT_MAPPER, DELIMITER>> \o field \o <<<<48 + n>>, DELIMITER>>
                       \o field \o field \o field \o field \o field
    IN  DecodeWhole(Open(CUSTOM_INFO) \o Flatten(payload) \o Close(CUSTOM_INFO)).frames[1]

\* transport.next() yields the mapper tag of the next room and the Code arm
\* handles it
HandleRoom ==
    /\ s2c = "running"
    /\ Len(sink) < MaxRooms
    /\ ret' = RoomFrame(Len(sink) + 1)
    /\ CodeFrameArm(RoomFrame(Len(sink) + 1).code)
    /\ UNCHANGED <<otherVars, stream, input, fed, parts, buf, state, next_index,
                   current_code_stack, readable, frames, eof, renderVars>>

\* the records held by spawned tasks whose send has not completed
Unsent ==
    {i \in 1..Len(sink) :
        /\ \A j \in 1..Len(channel) : channel[j] # sink[i]
        /\ \A j \in 1..Len(stored) : stored[j] # sink[i]}

\* the tx.send(..).await of one of the spawned tasks completes; every task
\* is scheduled on its own
TaskSend ==
    \E i \in Unsent :
        /\ Len(channel) < CHANNEL_CAPACITY
        /\ channel' = Append(channel, sink[i])
        /\ UNCHANGED <<stream, input, decoderVars, proxyVars, renderVars, mapper_result,
                       processVars, received, stored, colorVars, ioVars>>

NextSinkOrder ==
    \/ HandleRoom
    \/ TaskSend
    \/ DbRecv

SpecSinkOrder == InitSink /\ [][NextSinkOrder]_vars

\* C37: the mapper records reach the sink in the order in which their tags
\* were decoded: what the sink has stored and what waits in its channel is,
\* in this order, the beginning of the sequence of decoded records.
RecordsInDecodeOrder == IsPrefix(stored \o channel, sink)

\* ------------------------------------------------------ proxy_bidirection

\* the most bytes a direction copies
MaxCopied == 2

\* what a poll of the reader, the writer or the shutdown comes to
Outcomes == {"pending", "ready", "err"}

\* ProxyBuffer::poll_copy: it copies k more bytes and is pending, or has seen
\* the reader's end of file and all bytes written and returns their number,
\* or fails
poll_copy(copied, outcome, k) ==
    CASE outcome = "pending" -> [poll |-> "Pending", count |-> copied + k]
      [] outcome = "ready" -> [poll |-> "Ready", count |-> copied + k]
      [] outcome = "err" -> [poll |-> "Err", count |-> copied + k]

\* a direction that shuts the destination down while it is still copying
transfer_shuts_while_copying(st, copy, k, shutdown) ==
    [state |-> IF st.state = "Running" THEN Running(st.count + k) ELSE st,
     poll |-> "Pending", shut |-> TRUE]

\* server_to_client and client_to_server, which differ in the names of their
\* arguments only: the loop over the direction's ProxyState. It gives the new
\* state, what the function returns, and whether the destination's
\* poll_shutdown has succeeded
transfer_one_direction(st, copy, k, shutdown) ==
    LET copied == poll_copy(st.count, copy, k)
        ShuttingDownArm(count) ==
            CASE shutdown = "pending" ->
                   [state |-> ShuttingDown(count), poll |-> "Pending", shut |-> FALSE]
              [] shutdown = "err" ->
                   [state |-> ShuttingDown(count), poll |-> "Err", shut |-> FALSE]
              [] shutdown = "ready" ->
                   [state |-> Done(count), poll |-> "Ready", shut |-> TRUE]
    IN  CASE st.state = "Running" ->
               IF copied.poll = "Ready" THEN ShuttingDownArm(copied.count)
               ELSE [state |-> Running(copied.count), poll |-> copied.poll, shut |-> FALSE]
          [] st.state = "ShuttingDown" -> ShuttingDownArm(st.count)
          [] st.state = "Done" -> [state |-> st, poll |-> "Ready", shut |-> FALSE]

InitBidirection ==
    /\ stream = <<>>
    /\ input = <<>>
    /\ CodecIdle
    /\ ProxyIdle
    /\ RenderIdle
    /\ OtherIdle

\* one poll of the closure of proxy_bidirection
PollBidirection ==
    /\ bidirection = [kind |-> "Pending"]
    /\ \E copy_in, copy_out, shut_in, shut_out \in Outcomes, k_in, k_out \in 0..1 :
        /\ inbound.count + k_in <= MaxCopied
        /\ outbound.count + k_out <= MaxCopied
        /\ LET in == transfer_one_direction(inbound, copy_in, k_in, shut_in)
               out == transfer_one_direction(outbound, copy_out, k_out, shut_out)
           IN  /\ inbound' = in.state
               /\ client_wr' = IF in.shut THEN "closed" ELSE client_wr
               /\ IF in.poll = "Err"
                  THEN /\ bidirection' = [kind |-> "Err"]
                       /\ UNCHANGED <<outbound, server_wr>>
                  ELSE /\ outbound' = out.state
                       /\ server_wr' = IF out.shut THEN "closed" ELSE server_wr
                       /\ bidirection' =
                              IF out.poll = "Err" THEN [kind |-> "Err"]
                              ELSE IF in.poll = "Pending" \/ out.poll = "Pending"
                              THEN [kind |-> "Pending"]
                              ELSE [kind |-> "Ok", inbound |-> in.state.count,
                                    outbound |-> out.state.count]
    /\ UNCHANGED <<stream, input, decoderVars, proxyVars, renderVars, mapper_result, sinkVars,
                   colorVars, pc, client_input, client_fed, line, c2s, to_server>>

NextBidirection == PollBidirection

SpecBidirection == InitBidirection /\ [][NextBidirection]_vars

\* Running, then ShuttingDown, then Done
Rank(st) ==
    CASE st.state = "Running" -> 0
      [] st.state = "ShuttingDown" -> 1
      [] st.state = "Done" -> 2

\* a direction moves forward only, keeps its count once copying has finished,
\* and stays as it is once it is Done
Forward(before, after) ==
    /\ Rank(after) >= Rank(before)
    /\ before.state # "Running" => after.count = before.count
    /\ before.state = "Done" => after = before

\* C38: each direction of proxy_bidirection only moves forward through
\* Running, ShuttingDown, Done; the destination's write side is shut down
\* only after the copying of that direction has finished; a direction that is
\* Done stays Done with the same count; and the call returns Ok only when
\* both directions are Done, with their counts.
DirectionsOnlyForward ==
    [][/\ Forward(inbound, inbound')
       /\ Forward(outbound, outbound')
       /\ client_wr' = "closed" => inbound'.state = "Done"
       /\ server_wr' = "closed" => outbound'.state = "Done"
       /\ bidirection'.kind = "Ok" =>
              /\ inbound' = Done(bidirection'.inbound)
              /\ outbound' = Done(bidirection'.outbound)]_vars

\* the call has returned Ok: both directions are Done with bytes copied and
\* both write sides are shut down
DirectionsOnlyForwardWitness ==
    /\ bidirection = [kind |-> "Ok", inbound |-> 2, outbound |-> 1]
    /\ inbound = Done(2)
    /\ outbound = Done(1)
    /\ client_wr = "closed"
    /\ server_wr = "closed"

\* --------------------------------------------- rgb_to_xterm: the 6x6x6 cube

\* the six levels of a channel in the xterm colour cube: 00 5f 87 af d7 ff
CUBE_LEVELS == <<0, 95, 135, 175, 215, 255>>

\* a colour r, g, b of the cube
InitColorCube ==
    /\ stream = <<>>
    /\ input \in [1..3 -> {CUBE_LEVELS[i] : i \in 1..6}]
    /\ CodecIdle
    /\ ProxyIdle
    /\ RenderIdle
    /\ OtherIdle

SpecColorCube == InitColorCube /\ [][NextColor]_vars

\* the number 0..5 of a cube level
LevelOf(x) == ArrayPosition(CUBE_LEVELS, x)

\* C39: a colour of the cube that is none of the 16 base colours is converted
\* to 16 + 36*i + 6*j + k, i, j, k being the numbers of its levels, and no
\* step of the computation leaves the range of its type: x*5 that of u32 and
\* the sum that of u8.
CubeIndex ==
    (/\ xterm.done
     /\ ArrayPosition(BASE_COLORS, input[1] * 65536 + input[2] * 256 + input[3]) = -1) =>
        /\ xterm.value = 16 + 36 * LevelOf(input[1]) + 6 * LevelOf(input[2]) + LevelOf(input[3])
        /\ \A c \in 1..3 : input[c] * 5 <= 2147483647 /\ (input[c] * 5) \div 255 <= 255
        /\ 16 + 36 * ((input[1] * 5) \div 255) + 6 * ((input[2] * 5) \div 255)
               + (input[3] * 5) \div 255 <= 255

\* 5f87af has been converted: levels 1, 2, 3 and index 67
CubeIndexWitness ==
    /\ xterm.done
    /\ input = <<95, 135, 175>>
    /\ xterm.value = 67

\* ------------------------------------------- BatMudCodec: the scan cursor

\* C40: at every call of decode the scan cursor is inside the buffer,
\* 0 <= next_index <= length of the buffer, and it is at least 1 in the Esc
\* state; no slice, split or index of the buffer is out of range, so decode
\* does not panic on the buffer.
CursorInRange ==
    /\ readable =>
           /\ 0 <= next_index
           /\ next_index <= Len(buf)
           /\ state = "Esc" => next_index >= 1
    /\ ret.kind # "Panic"

\* decode is about to be called in the Esc state with the cursor at the end
\* of the buffer: the ESC is the last byte received, after some text
CursorInRangeWitness ==
    /\ readable
    /\ state = "Esc"
    /\ Len(buf) > 1
    /\ next_index = Len(buf)
    /\ At(buf, next_index - 1) = ESC

====
